---------------------------- MODULE Spec2Model ----------------------------
(***************************************************************************)
(* A model of the resume-screening API (src/python-api): the /predictbert  *)
(* request handler of app.py, the scoring functions of utils/scoring.py    *)
(* and utils/similarity.py, and the experience extraction of               *)
(* utils/extraction.py.                                                    *)
(*                                                                         *)
(* Texts are sequences of tokens.  A token is a record [k, v]: k is the    *)
(* lexical class the regular expressions of extraction.py tell apart, v    *)
(* the number a numeric token carries, or, for a word, 0 when the word is  *)
(* written in lower case and 1 when it holds an upper-case letter.  White  *)
(* space between tokens is implicit (every pattern allows \s* there).      *)
(*                                                                         *)
(* Similarities are integers in units of 1/SimScale, scores are exact      *)
(* rationals until they are rounded to hundredths of a point.              *)
(***************************************************************************)
EXTENDS Integers, Sequences, FiniteSets, TLC

VARIABLES
    \* the /predictbert request in flight (app.py)
    pc,              \* position of the handler
    request,         \* the request as received: form, files, content length
    job_data,        \* validate_job_data's result
    ranked_resumes,  \* results so far
    errors,          \* per-document error entries so far
    i,               \* index of the next file of the loop over files
    touched,         \* history: the files handed to process_single_resume
    response,        \* the HTTP response
    \* one call of a scoring function (utils/scoring.py, utils/similarity.py)
    sc_in, sc_out,
    \* one call of an extraction function (utils/extraction.py)
    ex_text, ex_out,
    \* the load of config/scoring_config.py
    weights,             \* SCORING_WEIGHTS as read from the environment
    load,                \* "importing", "raised" or "loaded"
    \* the similarity calculator singletons and the threads that ask for them
    utils_calculator,    \* utils/similarity.py: _similarity_calculator
    service_calculator,  \* services/similarityService.py: _similarity_calculator
    constructed,         \* history: how many calculators were constructed
    th,                  \* per thread: position, local value, returned value
    lazy_loading,        \* config/model_config.py: MODEL_LOAD_CONFIG['lazy_loading']
    instances,           \* the calculators constructed, by number: class, _model
    calls                \* history: the calls made one after another, with outcomes

reqVars == <<pc, request, job_data, ranked_resumes, errors, i, touched, response>>
scVars  == <<sc_in, sc_out>>
exVars  == <<ex_text, ex_out>>
cfgVars == <<weights, load>>
facVars == <<lazy_loading, instances, calls>>
sgVars  == <<utils_calculator, service_calculator, constructed, th,
             lazy_loading, instances, calls>>
vars    == <<pc, request, job_data, ranked_resumes, errors, i, touched, response,
             sc_in, sc_out, ex_text, ex_out, weights, load,
             utils_calculator, service_calculator, constructed, th,
             lazy_loading, instances, calls>>

None == [op |-> "none"]

----------------------------------------------------------------------------
(* Generic helpers *)

Max(a, b) == IF a >= b THEN a ELSE b
Min(a, b) == IF a <= b THEN a ELSE b

SetMax(S) == CHOOSE x \in S : \A y \in S : y <= x

RECURSIVE SeqMax(_)
SeqMax(s) == IF Len(s) = 1 THEN s[1] ELSE Max(s[1], SeqMax(Tail(s)))

RECURSIVE SeqSum(_)
SeqSum(s) == IF s = <<>> THEN 0 ELSE s[1] + SeqSum(Tail(s))

SeqsUpTo(S, n) == UNION { [1..m -> S] : m \in 0..n }

----------------------------------------------------------------------------
(* Tokens *)

Num(n)   == [k |-> "num",   v |-> n]    \* a run of digits, e.g. 5 or 2015
MY(y)    == [k |-> "my",    v |-> y]    \* MM/YYYY
MonY(y)  == [k |-> "mony",  v |-> y]    \* Month YYYY
Dash     == [k |-> "dash",  v |-> 0]    \* -
To       == [k |-> "to",    v |-> 0]    \* to
Plus     == [k |-> "plus",  v |-> 0]    \* +
Years    == [k |-> "years", v |-> 0]    \* year, years
YearsCap == [k |-> "years", v |-> 1]    \* Years, YEARS
Now      == [k |-> "now",   v |-> 0]    \* current, present
Edu      == [k |-> "edu",   v |-> 0]    \* education
EduCap   == [k |-> "edu",   v |-> 1]    \* Education, EDUCATION
Work     == [k |-> "work",  v |-> 0]    \* work, experience
WorkCap  == [k |-> "work",  v |-> 1]    \* Work, Experience
Word     == [k |-> "w",     v |-> 0]    \* any other word

WordKinds == {"years", "now", "edu", "work", "w", "to"}

\* str.lower(), token by token
LowerTok(t) == IF t.k \in WordKinds THEN [t EXCEPT !.v = 0] ELSE t
Lower(text) == [j \in 1..Len(text) |-> LowerTok(text[j])]

\* the token ends in a run of digits (\d+ can match there)
EndsInDigits(t) == t.k \in {"num", "my", "mony"}
\* the token ends in \b\d{4}\b
EndsInYear4(t) == \/ t.k \in {"my", "mony"}
                  \/ t.k = "num" /\ t.v >= 1000 /\ t.v <= 9999
\* the token is \b\d{4}\b
IsYear4(t) == t.k = "num" /\ t.v >= 1000 /\ t.v <= 9999
\* year or years, in lower case: the pattern has no IGNORECASE
IsYearsWord(t) == t.k = "years" /\ t.v = 0
\* (?:\+|-)
IsSign(t) == t.k \in {"plus", "dash"}
\* [-to]+
IsRangeSep(t) == t.k \in {"dash", "to"}
\* current, present: matched with IGNORECASE
IsNow(t) == t.k = "now"

----------------------------------------------------------------------------
(* utils/extraction.py *)

\* datetime.now().year
CurrentYear == 2026

\* re.findall(r'(\d+)\s*(?:\+|-)?\s*years?', text): the captured numbers, in
\* order, scanning from token j; matches do not overlap
RECURSIVE FindallExplicit(_, _)
FindallExplicit(text, j) ==
    IF j > Len(text) THEN <<>>
    ELSE IF /\ EndsInDigits(text[j])
            /\ j + 1 <= Len(text)
            /\ IsYearsWord(text[j + 1])
         THEN <<text[j].v>> \o FindallExplicit(text, j + 2)
    ELSE IF /\ EndsInDigits(text[j])
            /\ j + 2 <= Len(text)
            /\ IsSign(text[j + 1])
            /\ IsYearsWord(text[j + 2])
         THEN <<text[j].v>> \o FindallExplicit(text, j + 3)
    ELSE FindallExplicit(text, j + 1)

\* the three patterns of get_years: what may start and what may end a range
RangeStart(f, t) == CASE f = 1 -> EndsInYear4(t)
                      [] f = 2 -> t.k = "my"
                      [] f = 3 -> t.k = "mony"
RangeEnd(f, t) == CASE f = 1 -> IsYear4(t) \/ IsNow(t)
                    [] f = 2 -> t.k = "my" \/ IsNow(t)
                    [] f = 3 -> t.k = "mony" \/ IsNow(t)

\* re.findall(patterns[f], text, flags=re.IGNORECASE): the (start, end) pairs
RECURSIVE FindallRanges(_, _, _)
FindallRanges(f, text, j) ==
    IF j + 2 > Len(text) THEN <<>>
    ELSE IF /\ RangeStart(f, text[j])
            /\ IsRangeSep(text[j + 1])
            /\ RangeEnd(f, text[j + 2])
         THEN <<<<text[j], text[j + 2]>>>> \o FindallRanges(f, text, j + 3)
    ELSE FindallRanges(f, text, j + 1)

\* the body of the loop over matches: the years of one match
StartYear(m) == m[1].v
EndYear(m) == IF IsNow(m[2]) THEN CurrentYear ELSE m[2].v

RECURSIVE KeepOrdered(_)
KeepOrdered(ms) ==
    IF ms = <<>> THEN <<>>
    ELSE IF StartYear(ms[1]) <= EndYear(ms[1])
         THEN <<<<StartYear(ms[1]), EndYear(ms[1])>>>> \o KeepOrdered(Tail(ms))
         ELSE KeepOrdered(Tail(ms))

\* a variant that keeps the ranges whose start is after their end
get_years_unordered(text) ==
    LET ms == FindallRanges(1, text, 1) \o FindallRanges(2, text, 1)
              \o FindallRanges(3, text, 1)
    IN  [j \in 1..Len(ms) |-> <<StartYear(ms[j]), EndYear(ms[j])>>]

get_years(text) ==
    KeepOrdered(FindallRanges(1, text, 1) \o FindallRanges(2, text, 1)
                \o FindallRanges(3, text, 1))

\* tuple comparison of list.sort()
PairLess(a, b) == a[1] < b[1] \/ (a[1] = b[1] /\ a[2] < b[2])

RECURSIVE InsertPair(_, _)
InsertPair(x, s) ==
    IF s = <<>> THEN <<x>>
    ELSE IF PairLess(x, s[1]) THEN <<x>> \o s
    ELSE <<s[1]>> \o InsertPair(x, Tail(s))

RECURSIVE SortPairs(_)
SortPairs(s) ==
    IF s = <<>> THEN <<>>
    ELSE InsertPair(s[Len(s)], SortPairs(SubSeq(s, 1, Len(s) - 1)))

\* the merge loop of extract_num_years over years[j..], cur the current range
RECURSIVE MergeRanges(_, _, _, _)
MergeRanges(years, j, cur, merged) ==
    IF j > Len(years) THEN Append(merged, cur)
    ELSE IF years[j][1] <= cur[2]
         THEN MergeRanges(years, j + 1, <<cur[1], Max(cur[2], years[j][2])>>, merged)
         ELSE MergeRanges(years, j + 1, years[j], Append(merged, cur))

\* a variant that adds the ranges up without merging them
extract_num_years_unmerged(years) ==
    SeqSum([j \in 1..Len(years) |-> years[j][2] - years[j][1]])

\* a variant that counts from the first start to the last end, gaps included
extract_num_years_span(years) ==
    IF years = <<>> THEN 0
    ELSE SeqMax([j \in 1..Len(years) |-> years[j][2]])
         - (0 - SeqMax([j \in 1..Len(years) |-> 0 - years[j][1]]))

extract_num_years(years) ==
    IF years = <<>> THEN 0
    ELSE LET sorted == SortPairs(years)
             merged == MergeRanges(sorted, 2, sorted[1], <<>>)
         IN  SeqSum([j \in 1..Len(merged) |-> merged[j][2] - merged[j][1]])

\* text.find("education"): 0 stands for Python's -1
FirstEdu(text) ==
    IF \E j \in 1..Len(text) : text[j] = Edu
    THEN CHOOSE j \in 1..Len(text) :
            /\ text[j] = Edu
            /\ \A h \in 1..(j - 1) : text[h] # Edu
    ELSE 0

\* a variant whose fallback cuts from the first occurrence of "education"
get_education_text_from_first(text) ==
    LET edu_index == FirstEdu(text)
        after == { j \in edu_index..Len(text) : j >= 1 /\ text[j] = Work }
    IN  IF edu_index # 0
        THEN IF after # {}
             THEN LET real_work_index == CHOOSE j \in after : \A h \in after : j <= h
                  IN  SubSeq(text, edu_index, real_work_index - 1)
             ELSE SubSeq(text, edu_index, Len(text))
        ELSE <<>>

get_education_text(text) ==
    LET edu_index == FirstEdu(text)
        \* re.search(r'work|experience', text[edu_index:])
        after == { j \in edu_index..Len(text) : j >= 1 /\ text[j] = Work }
        \* list(re.finditer(r'education', text))[-1]
        last_edu_index == SetMax({ j \in 1..Len(text) : text[j] = Edu })
    IN  IF edu_index # 0
        THEN IF after # {}
             THEN LET real_work_index == CHOOSE j \in after : \A h \in after : j <= h
                  IN  SubSeq(text, edu_index, real_work_index - 1)
             ELSE SubSeq(text, last_edu_index, Len(text))
        ELSE <<>>

InSeq(x, s) == \E j \in 1..Len(s) : s[j] = x

\* a variant that infers from date ranges whenever the text has any
extract_experience_ranges_first(text) ==
    LET explicit_match == FindallExplicit(text, 1)
        years_range == get_years(text)
    IN  IF years_range # <<>> THEN extract_num_years(years_range)
        ELSE IF explicit_match # <<>> THEN SeqMax(explicit_match)
        ELSE 0

\* a variant that leaves out the ranges that stand in the education
\* substring, and keeps a range of the same years that stands elsewhere
extract_experience_by_position(text) ==
    LET explicit_match == FindallExplicit(text, 1)
        education_text == get_education_text(text)
        edu_index == FirstEdu(text)
        cut == IF education_text = <<>> THEN Len(text) + 1
               ELSE IF \E j \in edu_index..Len(text) : text[j] = Work
                    THEN edu_index
                    ELSE Len(text) - Len(education_text) + 1
    IN  IF explicit_match # <<>>
        THEN SeqMax(explicit_match)
        ELSE extract_num_years(
                get_years(SubSeq(text, 1, cut - 1))
                \o get_years(SubSeq(text, cut + Len(education_text), Len(text))))

\* a variant that counts the education ranges as well
extract_experience_with_education(text) ==
    LET explicit_match == FindallExplicit(text, 1)
    IN  IF explicit_match # <<>>
        THEN SeqMax(explicit_match)
        ELSE extract_num_years(get_years(text))

extract_experience(text) ==
    LET explicit_match == FindallExplicit(text, 1)
    IN  IF explicit_match # <<>>
        THEN SeqMax(explicit_match)
        ELSE LET education_years == get_years(get_education_text(text))
                 years_range == get_years(text)
                 NotEdu(y) == ~InSeq(y, education_years)
                 filtered_years == SelectSeq(years_range, NotEdu)
             IN  extract_num_years(filtered_years)

----------------------------------------------------------------------------
(* One call of extract_experience on a text *)

MaxTextLen == 5

\* the tokens the enumerated texts are built from
TextTokens == {Num(5), Num(2015), Num(2018), Dash, Years, Edu, Work}

\* longer texts, and the tokens the enumeration leaves out
SampleTexts == {
    <<Num(5), Plus, Years, Word, Work, Num(2015), Dash, Num(2020)>>,
    <<Num(3), YearsCap>>,
    <<Num(2015), To, Now>>,
    <<MY(2019), Dash, MY(2021)>>,
    <<MonY(2016), Dash, Now>>,
    <<Num(2015), Dash, Num(2018), Word, Num(2019), Dash, Num(2021)>>,
    <<Num(2015), Dash, Num(2018), Num(2019), Dash, Num(2021)>>,
    <<Num(2019), To, Num(2021), Word, Word, Num(2015), Dash, Num(2018)>>,
    <<Edu, Num(2010), Dash, Num(2014), Work, Num(2015), Dash, Num(2018)>>,
    <<Num(2018), Dash, Num(2015)>>,
    <<Edu, Num(2015), Dash, Num(2018), Work, Num(2015), Dash, Num(2018)>>,
    <<Word, Num(2012), To, Num(2016), Edu, Num(2010), Dash, Num(2014), Num(2016), Dash, Now>>,
    <<EduCap, Num(2010), Dash, Num(2014), WorkCap, Num(2014), To, Num(2016)>> }

Texts == SeqsUpTo(TextTokens, MaxTextLen) \cup SampleTexts

IdleRequest == [form |-> <<>>, files |-> <<>>, content_length |-> 0]

ReqIdle ==
    /\ pc = "off"
    /\ request = IdleRequest
    /\ job_data = None
    /\ ranked_resumes = <<>>
    /\ errors = <<>>
    /\ i = 0
    /\ touched = <<>>
    /\ response = None

ScIdle == sc_in = None /\ sc_out = None
ExIdle == ex_text = <<>> /\ ex_out = None

\* the configuration loaded with the default weights, in thousandths
DefaultWeights == [general |-> 100, skills |-> 400, experience |-> 300,
                   education |-> 200]
CfgIdle == weights = DefaultWeights /\ load = "loaded"
\* LAZY_LOAD_MODEL is 'true' by default; no calculator constructed, no call made
FacIdle ==
    /\ lazy_loading = TRUE
    /\ instances = <<>>
    /\ calls = <<>>
\* no calculator asked for: 0 stands for None
SgIdle ==
    /\ utils_calculator = 0
    /\ service_calculator = 0
    /\ constructed = 0
    /\ th = <<>>
    /\ FacIdle

InitExtract ==
    /\ ReqIdle
    /\ ScIdle
    /\ CfgIdle
    /\ SgIdle
    /\ ex_text \in Texts
    /\ ex_out = None

CallExtractExperience ==
    /\ ex_out = None
    /\ ex_out' = [op |-> "extract_experience", val |-> extract_experience(ex_text)]
    /\ UNCHANGED <<ex_text, reqVars, scVars, cfgVars, sgVars>>

\* extract_entities lowers the text before it extracts the experience
CallExtractExperienceLowered ==
    /\ ex_out = None
    /\ ex_out' = [op |-> "extract_experience_lower",
                  val |-> extract_experience(Lower(ex_text))]
    /\ UNCHANGED <<ex_text, reqVars, scVars, cfgVars, sgVars>>

\* a direct call of get_education_text on the text
CallGetEducationText ==
    /\ ex_out = None
    /\ ex_out' = [op |-> "get_education_text", val |-> get_education_text(ex_text)]
    /\ UNCHANGED <<ex_text, reqVars, scVars, cfgVars, sgVars>>

NextExtract ==
    \/ CallExtractExperience
    \/ CallExtractExperienceLowered
    \/ CallGetEducationText

SpecExtract == InitExtract /\ [][NextExtract]_vars

\* the numbers of the explicit mentions of a text: a token ending in digits
\* followed by year(s), with at most a + or - between them
MentionValues(text) ==
    { text[j].v : j \in { h \in 1..Len(text) :
        /\ EndsInDigits(text[h])
        /\ \/ h + 1 <= Len(text) /\ IsYearsWord(text[h + 1])
           \/ h + 2 <= Len(text) /\ IsSign(text[h + 1]) /\ IsYearsWord(text[h + 2]) } }

\* C10: whenever the text holds an explicit "<integer> [+|-] year(s)" mention,
\* extract_experience returns the largest mentioned integer, whatever date
\* ranges the text holds as well.
C10_ExplicitMentionHasPriority ==
    (ex_out.op = "extract_experience" /\ MentionValues(ex_text) # {})
        => ex_out.val = SetMax(MentionValues(ex_text))

\* C10 witness: a text with an explicit mention and a date range of another
\* length, for which the mention was returned
C10_Witness ==
    /\ ex_out.op = "extract_experience"
    /\ MentionValues(ex_text) # {}
    /\ get_years(ex_text) # <<>>
    /\ extract_num_years(get_years(ex_text)) # SetMax(MentionValues(ex_text))
    /\ ex_out.val = SetMax(MentionValues(ex_text))

----------------------------------------------------------------------------
(* config/scoring_config.py, utils/skill_edu.py *)

\* a similarity of 1.0
SimScale == 100 * 100

\* SCORING_WEIGHTS, in percent
SCORING_WEIGHTS == [general |-> 10, skills |-> 40, experience |-> 30, education |-> 20]

\* EXPERIENCE_CONFIG: max_scaling_factor = 1.5 = 3/2, no_requirement_score = 1.0
MaxScalingNum == 3
MaxScalingDen == 2
NoRequirementScore == 1

\* DEGREE_EQUIVALENTS_BOOST = 0.5
DEGREE_EQUIVALENTS_BOOST == SimScale \div 2

\* phrases are sequences of words
ComputerScience       == <<"Computer", "Science">>
ComputerEngineering   == <<"Computer", "Engineering">>
SoftwareEngineering   == <<"Software", "Engineering">>
InformationSystems    == <<"Information", "Systems">>
InformationTechnology == <<"Information", "Technology">>
NetworkSecurity       == <<"Network", "Security">>
IT                    == <<"IT">>

degree_equivalents ==
    [key \in {ComputerScience, SoftwareEngineering, IT} |->
        CASE key = ComputerScience ->
                {ComputerEngineering, SoftwareEngineering, InformationSystems}
          [] key = SoftwareEngineering ->
                {ComputerScience, InformationTechnology}
          [] key = IT ->
                {InformationTechnology, NetworkSecurity}]

\* key in text, for phrases: key occurs in text word for word
Contains(text, key) ==
    \E a \in 1..(Len(text) - Len(key) + 1) : SubSeq(text, a, a + Len(key) - 1) = key

----------------------------------------------------------------------------
(* utils/similarity.py, utils/scoring.py.  The similarity provider's answers
   are inputs: sim is what calculator.compute_similarity returns, in units of
   1/SimScale.  A rational is a pair <<numerator, denominator>>. *)

\* the additions of the two loops of qualification_similarity
BoostCount(resume_qualification, job_qualification) ==
    Cardinality({ p \in (1..Len(resume_qualification)) \X DOMAIN degree_equivalents :
        /\ resume_qualification[p[1]] \in degree_equivalents[p[2]]
        /\ Contains(job_qualification, p[2]) })

\* a variant without the final min
qualification_similarity_unclamped(resume_qualification, job_qualification, sim) ==
    sim + BoostCount(resume_qualification, job_qualification) * DEGREE_EQUIVALENTS_BOOST

\* resume_qualification is given as resume_qualification.split(", ")
qualification_similarity(resume_qualification, job_qualification, sim) ==
    LET score == sim + BoostCount(resume_qualification, job_qualification)
                        * DEGREE_EQUIVALENTS_BOOST
    IN  Min(score, SimScale)

\* a variant that gives no credit when no experience is required
compute_experience_score_no_credit(resume_years, job_exp, similarity_score) ==
    LET job_years == extract_experience(job_exp)
        num_experience_score ==
            IF job_years = 0 THEN <<0, 1>>
            ELSE IF resume_years * MaxScalingDen <= MaxScalingNum * job_years
                 THEN <<resume_years, job_years>>
                 ELSE <<MaxScalingNum, MaxScalingDen>>
    IN  <<num_experience_score[1] * similarity_score, num_experience_score[2]>>

\* a variant without the cap
compute_experience_score_uncapped(resume_years, job_exp, similarity_score) ==
    LET job_years == extract_experience(job_exp)
        num_experience_score ==
            IF job_years = 0 THEN <<NoRequirementScore, 1>>
            ELSE <<resume_years, job_years>>
    IN  <<num_experience_score[1] * similarity_score, num_experience_score[2]>>

\* the result is a rational, in units of 1/SimScale
compute_experience_score(resume_years, job_exp, similarity_score) ==
    LET job_years == extract_experience(job_exp)
        num_experience_score ==
            IF job_years = 0 THEN <<NoRequirementScore, 1>>
            \* min(resume_years / job_years, max_scaling_factor)
            ELSE IF resume_years * MaxScalingDen <= MaxScalingNum * job_years
                 THEN <<resume_years, job_years>>
                 ELSE <<MaxScalingNum, MaxScalingDen>>
    IN  <<num_experience_score[1] * similarity_score, num_experience_score[2]>>

\* round(n / d, 2) of a score of n / d points, in hundredths of a point.  A
\* value halfway between two hundredths goes where its binary float lies: up
\* tells which
Round2(n, d, up) ==
    LET q == (100 * n) \div d
        r == (100 * n) % d
    IN  IF 2 * r < d THEN q
        ELSE IF 2 * r > d THEN q + 1
        ELSE IF up THEN q + 1 ELSE q

ScoreKeys == {"ts", "ss", "ex", "ed", "ge"}

\* a variant whose total leaves the general score out
get_resume_ranking_score_no_general(ranking_data, job, sim, up) ==
    LET ces == compute_experience_score(ranking_data.experience,
                                        job.experience, sim.experience)
        qs == qualification_similarity(ranking_data.education,
                                       job.education, sim.education)
        den == ces[2] * SimScale
        general_score == sim.general * SCORING_WEIGHTS.general * ces[2]
        skills_score == sim.skills * SCORING_WEIGHTS.skills * ces[2]
        experience_score == ces[1] * SCORING_WEIGHTS.experience
        education_score == qs * SCORING_WEIGHTS.education * ces[2]
        total_score == skills_score + experience_score + education_score
    IN  [ts |-> Round2(total_score, den, up.ts),
         ss |-> Round2(skills_score, den, up.ss),
         ex |-> Round2(experience_score, den, up.ex),
         ed |-> Round2(education_score, den, up.ed),
         ge |-> Round2(general_score, den, up.ge)]

\* the scores are computed over the common denominator den, in points:
\* similarity / SimScale * weight / 100 * 100
get_resume_ranking_score(ranking_data, job, sim, up) ==
    LET ces == compute_experience_score(ranking_data.experience,
                                        job.experience, sim.experience)
        qs == qualification_similarity(ranking_data.education,
                                       job.education, sim.education)
        den == ces[2] * SimScale
        general_score == sim.general * SCORING_WEIGHTS.general * ces[2]
        skills_score == sim.skills * SCORING_WEIGHTS.skills * ces[2]
        experience_score == ces[1] * SCORING_WEIGHTS.experience
        education_score == qs * SCORING_WEIGHTS.education * ces[2]
        total_score == skills_score + experience_score + education_score
                       + general_score
    IN  [ts |-> Round2(total_score, den, up.ts),
         ss |-> Round2(skills_score, den, up.ss),
         ex |-> Round2(experience_score, den, up.ex),
         ed |-> Round2(education_score, den, up.ed),
         ge |-> Round2(general_score, den, up.ge)]

----------------------------------------------------------------------------
(* One call of a scoring function *)

MaxYears == 6
MaxDegrees == 2

\* cosine similarities the provider may return, from -1.0 to 1.0
SimValues == {-500, 0, 1234, 1235, 8000, SimScale}
ScoreSims ==
    [general : {-500, 1234, 1235, 8000, SimScale}, skills : {-500, 1234, 8000, SimScale},
     experience : {1234, 1235, 8000, SimScale}, education : {1234, 8000, SimScale}]

\* requirement texts
JobExpTexts == {
    <<Word, Work>>,
    <<Num(0), Years>>,
    <<Num(2015), Dash, Num(2015)>>,
    <<Num(3), Years>>,
    <<Num(3), YearsCap>>,
    <<Num(5), Plus, Years>>,
    <<Num(2015), Dash, Num(2017)>> }
ScoreJobExpTexts == { <<Word, Work>>, <<Num(3), Years>>, <<Num(5), Plus, Years>> }

Lowered(phrase) ==
    CASE phrase = ComputerEngineering -> <<"computer", "engineering">>
      [] phrase = SoftwareEngineering -> <<"software", "engineering">>
      [] phrase = InformationTechnology -> <<"information", "technology">>
      [] OTHER -> phrase

\* the parts of a resume education string
DegreeTokens == {ComputerEngineering, SoftwareEngineering, InformationTechnology,
                 Lowered(ComputerEngineering), <<>>}
ResumeQualifications == SeqsUpTo(DegreeTokens, MaxDegrees) \ {<<>>}
ScoreResumeQualifications ==
    { <<<<>>>>, <<Lowered(ComputerEngineering)>>,
      <<ComputerEngineering, SoftwareEngineering>> }

JobQualifications == {
    <<"BSc", "Computer", "Science">>,
    <<"Computer", "Science", "or", "Software", "Engineering">>,
    <<"Bachelor", "IT">>,
    <<"Bachelor">> }
ScoreJobQualifications == { <<"BSc", "Computer", "Science">>, <<"Bachelor">> }

ScoringCalls ==
    [op : {"compute_experience_score"}, resume_years : 0..MaxYears,
     job_exp : JobExpTexts, similarity_score : SimValues]
    \cup
    [op : {"qualification_similarity"}, resume_qualification : ResumeQualifications,
     job_qualification : JobQualifications, sim : SimValues]
    \cup
    [op : {"get_resume_ranking_score"},
     ranking_data : [experience : 0..MaxYears, education : ScoreResumeQualifications],
     job_data : [experience : ScoreJobExpTexts, education : ScoreJobQualifications],
     sim : ScoreSims]

InitScore ==
    /\ ReqIdle
    /\ ExIdle
    /\ CfgIdle
    /\ SgIdle
    /\ sc_in \in ScoringCalls
    /\ sc_out = None

CallComputeExperienceScore ==
    /\ sc_out = None
    /\ sc_in.op = "compute_experience_score"
    /\ sc_out' = [op |-> sc_in.op,
                  val |-> compute_experience_score(sc_in.resume_years, sc_in.job_exp,
                                                   sc_in.similarity_score)]
    /\ UNCHANGED <<sc_in, reqVars, exVars, cfgVars, sgVars>>

CallQualificationSimilarity ==
    /\ sc_out = None
    /\ sc_in.op = "qualification_similarity"
    /\ sc_out' = [op |-> sc_in.op,
                  val |-> qualification_similarity(sc_in.resume_qualification,
                                                   sc_in.job_qualification, sc_in.sim)]
    /\ UNCHANGED <<sc_in, reqVars, exVars, cfgVars, sgVars>>

CallGetResumeRankingScore ==
    /\ sc_out = None
    /\ sc_in.op = "get_resume_ranking_score"
    /\ \E up \in [ScoreKeys -> BOOLEAN] :
          sc_out' = [op |-> sc_in.op,
                     val |-> get_resume_ranking_score(sc_in.ranking_data,
                                                      sc_in.job_data, sc_in.sim, up)]
    /\ UNCHANGED <<sc_in, reqVars, exVars, cfgVars, sgVars>>

NextScore ==
    \/ CallComputeExperienceScore
    \/ CallQualificationSimilarity
    \/ CallGetResumeRankingScore

SpecScore == InitScore /\ [][NextScore]_vars

Abs(x) == IF x < 0 THEN -x ELSE x

\* C5: in every result of get_resume_ranking_score, ts differs from
\* ss + ex + ed + ge by at most 0.04 (4 hundredths of a point).
C5_ScoreSumConsistency ==
    sc_out.op = "get_resume_ranking_score"
        => Abs(sc_out.val.ts - (sc_out.val.ss + sc_out.val.ex + sc_out.val.ed
                                + sc_out.val.ge)) <= 4

\* C5 witness: a result whose rounded total is not the sum of its rounded parts
C5_Witness ==
    /\ sc_out.op = "get_resume_ranking_score"
    /\ sc_out.val.ts # sc_out.val.ss + sc_out.val.ex + sc_out.val.ed + sc_out.val.ge

\* C6: every sub-score returned by get_resume_ranking_score is non-negative,
\* for every similarity the provider can return.
C6_SubScoresNonNegative ==
    sc_out.op = "get_resume_ranking_score"
        => /\ sc_out.val.ss >= 0
           /\ sc_out.val.ex >= 0
           /\ sc_out.val.ed >= 0
           /\ sc_out.val.ge >= 0

\* C7: qualification_similarity never returns more than 1.0, however many
\* degree-equivalence boosts apply.
C7_QualificationAtMostOne ==
    sc_out.op = "qualification_similarity" => sc_out.val <= SimScale

\* the resume tokens that are an equivalent of a degree the job text names
EquivalentTokens(resume_qualification, job_qualification) ==
    { h \in 1..Len(resume_qualification) :
        \E key \in DOMAIN degree_equivalents :
            /\ resume_qualification[h] \in degree_equivalents[key]
            /\ Contains(job_qualification, key) }

\* C7 witness: two tokens of the resume education each earn a boost, the sum
\* passes 1.0 and 1.0 is returned
C7_Witness ==
    /\ sc_out.op = "qualification_similarity"
    /\ Cardinality(EquivalentTokens(sc_in.resume_qualification,
                                    sc_in.job_qualification)) >= 2
    /\ sc_in.sim + 2 * DEGREE_EQUIVALENTS_BOOST > SimScale
    /\ sc_out.val = SimScale

\* C8: when zero job years are extracted from the requirement text,
\* compute_experience_score returns no_requirement_score * similarity_score
\* (1.0 * similarity), whatever resume_years is.
C8_NoRequirementFullCredit ==
    (sc_out.op = "compute_experience_score" /\ extract_experience(sc_in.job_exp) = 0)
        => sc_out.val[1] = sc_in.similarity_score * sc_out.val[2]

\* C8 witness: no years in the requirement, years in the resume, a similarity
\* that is not 0, and the similarity came back
C8_Witness ==
    /\ sc_out.op = "compute_experience_score"
    /\ extract_experience(sc_in.job_exp) = 0
    /\ sc_in.resume_years > 0
    /\ sc_in.similarity_score > 0
    /\ sc_out.val[1] = sc_in.similarity_score * sc_out.val[2]

\* C9: with job_years > 0 compute_experience_score returns
\* min(resume_years / job_years, 1.5) * similarity_score: resume_years / job_years
\* times the similarity while that ratio is at most 1.5 (also below 1: no
\* floor), and 1.5 times the similarity beyond.
C9_RatioCappedNotFloored ==
    LET job_years == extract_experience(sc_in.job_exp)
    IN  (sc_out.op = "compute_experience_score" /\ job_years > 0)
            => /\ 2 * sc_in.resume_years <= 3 * job_years
                    => sc_out.val[1] * job_years
                       = sc_in.resume_years * sc_in.similarity_score * sc_out.val[2]
               /\ 2 * sc_in.resume_years > 3 * job_years
                    => 2 * sc_out.val[1] = 3 * sc_in.similarity_score * sc_out.val[2]

\* C9 witness: a resume with more than 1.5 times the required years, scored
\* 1.5 times the similarity
C9_Witness ==
    /\ sc_out.op = "compute_experience_score"
    /\ extract_experience(sc_in.job_exp) > 0
    /\ 2 * sc_in.resume_years > 3 * extract_experience(sc_in.job_exp)
    /\ sc_in.similarity_score > 0
    /\ 2 * sc_out.val[1] = 3 * sc_in.similarity_score * sc_out.val[2]

----------------------------------------------------------------------------
(* app.py: configuration and validation *)

\* MAX_FILES = int(os.getenv('MAX_FILES', 10)): the deployment modelled sets
\* the variable to this value
MAX_FILES == 3
\* MAX_FILE_SIZE = 10 * 1024 * 1024
MAX_FILE_SIZE == 10485760
\* app.config['MAX_CONTENT_LENGTH'] = 50 * 1024 * 1024
MAX_CONTENT_LENGTH == 52428800

required_fields == <<"job_description", "skills", "experience", "education">>

\* the length limits of validate_job_data
FieldLimit == [job_description |-> 10000, skills |-> 5000,
               experience |-> 2000, education |-> 2000]

\* str.lower() of a file extension
LowerExt(ext) == CASE ext = "PDF" -> "pdf" [] ext = "Pdf" -> "pdf" [] OTHER -> ext

\* a filename is the sequence of its parts between dots: <<>> is the empty
\* name, <<"README">> has no dot
allowed_file(filename) ==
    /\ Len(filename) >= 2
    /\ LowerExt(filename[Len(filename)]) \in {"pdf"}

\* the first field that is missing or blank, 0 when there is none
FirstMissing(form) ==
    LET bad == { h \in 1..Len(required_fields) :
                    \/ ~form.meta[required_fields[h]].present
                    \/ form.meta[required_fields[h]].blank }
    IN  IF bad = {} THEN 0 ELSE CHOOSE h \in bad : \A g \in bad : h <= g

\* the first field over its limit, 0 when there is none
FirstTooLong(form) ==
    LET bad == { h \in 1..Len(required_fields) :
                    form.meta[required_fields[h]].len > FieldLimit[required_fields[h]] }
    IN  IF bad = {} THEN 0 ELSE CHOOSE h \in bad : \A g \in bad : h <= g

\* raise BadRequest(...)
BadRequest(message) == [raised |-> TRUE, message |-> message]

\* a variant without the length checks
validate_job_data_no_length(form) ==
    IF FirstMissing(form) # 0
    THEN BadRequest(<<"Missing or empty required field", required_fields[FirstMissing(form)]>>)
    ELSE [raised |-> FALSE, value |-> form.text]

\* form.text holds the four stripped values
validate_job_data(form) ==
    IF FirstMissing(form) # 0
    THEN BadRequest(<<"Missing or empty required field", required_fields[FirstMissing(form)]>>)
    ELSE IF FirstTooLong(form) # 0
    THEN BadRequest(<<"too long", required_fields[FirstTooLong(form)]>>)
    ELSE [raised |-> FALSE, value |-> form.text]

\* the check of one file, in the order of the loop body of validate_files
FileFault(file) ==
    IF file.filename = <<>> THEN "File has no filename"
    ELSE IF ~allowed_file(file.filename) THEN "Invalid file type"
    ELSE IF file.size > MAX_FILE_SIZE THEN "too large"
    ELSE "none"

\* a variant that does not look at the file sizes
validate_files_no_size(files) ==
    IF files = <<>> THEN BadRequest(<<"No resume files provided", <<>>>>)
    ELSE IF Len(files) > MAX_FILES THEN BadRequest(<<"Too many files", <<>>>>)
    ELSE LET bad == { h \in 1..Len(files) :
                        FileFault(files[h]) \in {"File has no filename", "Invalid file type"} }
         IN  IF bad = {} THEN [raised |-> FALSE]
             ELSE LET h == CHOOSE g \in bad : \A f \in bad : g <= f
                  IN  BadRequest(<<FileFault(files[h]), files[h].filename>>)

validate_files(files) ==
    IF files = <<>> THEN BadRequest(<<"No resume files provided", <<>>>>)
    ELSE IF Len(files) > MAX_FILES THEN BadRequest(<<"Too many files", <<>>>>)
    ELSE LET bad == { h \in 1..Len(files) : FileFault(files[h]) # "none" }
         IN  IF bad = {} THEN [raised |-> FALSE]
             ELSE LET h == CHOOSE g \in bad : \A f \in bad : g <= f
                  IN  BadRequest(<<FileFault(files[h]), files[h].filename>>)

----------------------------------------------------------------------------
(* app.py: process_single_resume and what it calls *)

\* a token that stands for an occurrence, in the cleaned text, of the v-th
\* entry of the lowered skill or education vocabulary
Skill(n)  == [k |-> "skill",  v |-> n]
Degree(n) == [k |-> "degree", v |-> n]

\* {skill.lower() for skill in skill_dataset}, a part of it.  A string is the
\* sequence of its pieces: words, "," and " "
skill_data == << <<"flask">>, <<"django">>, <<"docker">> >>
\* a variant that keeps the education keywords as utils/skill_edu.py lists them
education_data_as_listed ==
    << ComputerScience, ComputerEngineering, SoftwareEngineering >>

\* {edu.lower() for edu in education_keywords}, a part of it
education_data == << <<"computer", "science">>, <<"computer", "engineering">>,
                     <<"software", "engineering">> >>

extract_entities(text) ==
    LET raw_text == Lower(text)
    IN  [skills |-> { skill_data[raw_text[h].v] :
                        h \in { g \in 1..Len(raw_text) : raw_text[g].k = "skill" } },
         education |-> { education_data[raw_text[h].v] :
                        h \in { g \in 1..Len(raw_text) : raw_text[g].k = "degree" } },
         experience |-> extract_experience(raw_text)]

\* str.split(", "): the items between the occurrences of "," followed by
\* " ", scanning from piece j; cur is the item under way
RECURSIVE SplitCommaSpace(_, _, _, _)
SplitCommaSpace(str, j, cur, items) ==
    IF j > Len(str) THEN Append(items, cur)
    ELSE IF str[j] = "," /\ j + 1 <= Len(str) /\ str[j + 1] = " "
         THEN SplitCommaSpace(str, j + 2, <<>>, Append(items, cur))
         ELSE SplitCommaSpace(str, j + 1, Append(cur, str[j]), items)

\* str.strip()
RECURSIVE Strip(_)
Strip(str) ==
    IF str = <<>> THEN <<>>
    ELSE IF str[1] = " " THEN Strip(Tail(str))
    ELSE IF str[Len(str)] = " " THEN Strip(SubSeq(str, 1, Len(str) - 1))
    ELSE str

\* a variant that takes a skill for matched when a job item contains it
filter_skills_partial(applicant_skills, job_skills) ==
    LET items == IF job_skills.kind = "str"
                 THEN SplitCommaSpace(job_skills.val, 1, <<>>, <<>>)
                 ELSE job_skills.val
    IN  { skill \in applicant_skills :
            \E j \in 1..Len(items) : \E a, b \in 1..Len(items[j]) :
                SubSeq(items[j], a, b) = skill }

\* job_skills is [kind |-> "str", val |-> the string] or
\* [kind |-> "list", val |-> the list of strings]
filter_skills(applicant_skills, job_skills) ==
    LET split == SplitCommaSpace(job_skills.val, 1, <<>>, <<>>)
        job_list == IF job_skills.kind = "str"
                    THEN [j \in 1..Len(split) |-> Strip(split[j])]
                    ELSE job_skills.val
    IN  { skill \in applicant_skills : InSeq(skill, job_list) }

\* ", ".join(v), given as its parts: the string of the empty set is "", whose
\* only part is empty
RECURSIVE JoinSet(_, _)
JoinSet(v, empty) ==
    IF v = {} THEN <<>>
    ELSE LET x == CHOOSE y \in v : TRUE IN <<x>> \o JoinSet(v \ {x}, empty)

Join(v, empty) == IF v = {} THEN <<empty>> ELSE JoinSet(v, empty)

\* THRESHOLDS[...]['strong'], in points
THRESHOLDS == [skills |-> 30, experience |-> 20, education |-> 12, general |-> 7]

\* a variant that compares with >=
generate_explanation_inclusive(scores) ==
    << IF scores.ss >= 100 * THRESHOLDS.skills
       THEN "SS: strong skill." ELSE "SS: lacks some required skills.",
       IF scores.ex >= 100 * THRESHOLDS.experience
       THEN "EX: relevant work experience." ELSE "EX: less experience.",
       IF scores.ed >= 100 * THRESHOLDS.education
       THEN "ED: meets the required qualifications."
       ELSE "ED: does not fully meet the qualifications.",
       IF scores.ge >= 100 * THRESHOLDS.general
       THEN "GS: aligns well." ELSE "GS: does not strongly align." >>

\* the four sentences, scores in hundredths of a point
generate_explanation(scores) ==
    << IF scores.ss > 100 * THRESHOLDS.skills
       THEN "SS: strong skill." ELSE "SS: lacks some required skills.",
       IF scores.ex > 100 * THRESHOLDS.experience
       THEN "EX: relevant work experience." ELSE "EX: less experience.",
       IF scores.ed > 100 * THRESHOLDS.education
       THEN "ED: meets the required qualifications."
       ELSE "ED: does not fully meet the qualifications.",
       IF scores.ge > 100 * THRESHOLDS.general
       THEN "GS: aligns well." ELSE "GS: does not strongly align." >>

\* raise ...: str(e) of what process_single_resume raises
Raised(e) == [ok |-> FALSE, error |-> e]

\* the record process_single_resume returns; upload is the position of the
\* file in the request (history, not in the response)
ResumeResult(file, ranking_data, scores, upload) ==
    [ok |-> TRUE,
     result |-> [skills |-> ranking_data.skills,
                 education |-> ranking_data.education,
                 experience |-> ranking_data.experience,
                 r_skills |-> ranking_data.r_skills,
                 filename |-> file.filename,
                 explanation |-> generate_explanation(scores),
                 ts |-> scores.ts, ss |-> scores.ss, ex |-> scores.ex,
                 ed |-> scores.ed, ge |-> scores.ge,
                 upload |-> upload]]

\* ranking_data = extract_entities(resume_text) with its sets joined, and
\* r_skills the skills the job asks for
RankingData(entities, job) ==
    [skills |-> Join(entities.skills, <<>>),
     education |-> Join(entities.education, <<>>),
     experience |-> entities.experience,
     r_skills |-> Join(filter_skills(entities.skills,
                                     [kind |-> "str", val |-> job.skills]), <<>>)]

\* scores = get_resume_ranking_score(ranking_data, job_data)
ScoreResume(file, ranking_data, job, upload, up) ==
    ResumeResult(file, ranking_data,
                 get_resume_ranking_score(ranking_data, job, file.doc.sim, up),
                 upload)

\* file.doc is what the PDF holds: whether pypdf can read it, the text and its
\* stripped length, and what the similarity provider answers for it
process_single_resume(file, job, upload, up) ==
    IF ~file.doc.readable
    THEN Raised(<<"Failed to extract text from PDF", file.filename>>)
    ELSE IF file.doc.stripped_len < 50
    THEN Raised(<<"contains insufficient text", file.filename>>)
    ELSE IF ~file.doc.provider_ok
    THEN Raised(<<"similarity provider failed", file.filename>>)
    ELSE ScoreResume(file, RankingData(extract_entities(file.doc.text), job),
                     job, upload, up)

\* a variant that names the first file of the batch
ErrorEntry_first_file(files, h, e) == [filename |-> files[1].filename, error |-> e]

\* errors.append({"filename": file.filename, "error": str(e)})
ErrorEntry(files, h, e) == [filename |-> files[h].filename, error |-> e]

\* insert x behind every entry whose ts is at least x.ts
RECURSIVE InsertByTs(_, _)
InsertByTs(x, s) ==
    IF s = <<>> THEN <<x>>
    ELSE IF s[1].ts < x.ts THEN <<x>> \o s
    ELSE <<s[1]>> \o InsertByTs(x, Tail(s))

\* a variant that leaves the list as it is
SortByTs_unsorted(s) == s

\* a variant that sorts ascending and reverses: ties come out in reverse
RECURSIVE SortByTs_reversed(_)
SortByTs_reversed(s) ==
    IF s = <<>> THEN <<>>
    ELSE InsertByTs(s[1], SortByTs_reversed(Tail(s)))

\* ranked_resumes.sort(key=lambda x: x.get("ts", 0), reverse=True): a stable
\* sort, equal keys keep their order
RECURSIVE SortByTs(_)
SortByTs(s) ==
    IF s = <<>> THEN <<>>
    ELSE InsertByTs(s[Len(s)], SortByTs(SubSeq(s, 1, Len(s) - 1)))

----------------------------------------------------------------------------
(* The requests *)

SimAll(x) == [general |-> x, skills |-> x, experience |-> x, education |-> x]

DocHi ==
    [readable |-> TRUE, stripped_len |-> 400, provider_ok |-> TRUE,
     text |-> <<Num(5), Years, Skill(1), Degree(2)>>, sim |-> SimAll(8000)]
DocLo ==
    [readable |-> TRUE, stripped_len |-> 50, provider_ok |-> TRUE,
     text |-> <<WorkCap, Num(2015), Dash, Num(2017), Skill(2)>>,
     sim |-> [general |-> 1235, skills |-> 3000, experience |-> 3000,
              education |-> 3000]]
DocTie ==
    [readable |-> TRUE, stripped_len |-> 400, provider_ok |-> TRUE,
     text |-> <<Num(2010), To, Num(2016), Degree(1)>>, sim |-> SimAll(8000)]
DocCorrupt ==
    [readable |-> FALSE, stripped_len |-> 0, provider_ok |-> TRUE,
     text |-> <<>>, sim |-> SimAll(0)]
DocShort ==
    [readable |-> TRUE, stripped_len |-> 49, provider_ok |-> TRUE,
     text |-> <<Word>>, sim |-> SimAll(0)]
DocNoSim ==
    [readable |-> TRUE, stripped_len |-> 400, provider_ok |-> FALSE,
     text |-> <<Num(5), Years>>, sim |-> SimAll(0)]

File(name, size, doc) == [filename |-> name, size |-> size, doc |-> doc]

Files == {
    File(<<"hi", "pdf">>, 1000, DocHi),
    File(<<"lo", "pdf">>, MAX_FILE_SIZE, DocLo),
    File(<<"tie", "PDF">>, 1000, DocTie),
    File(<<"corrupt", "pdf">>, 1000, DocCorrupt),
    File(<<"short", "pdf">>, 1000, DocShort),
    File(<<"nosim", "pdf">>, 1000, DocNoSim),
    File(<<>>, 1000, DocHi),
    File(<<"notes", "txt">>, 1000, DocHi),
    File(<<"big", "pdf">>, MAX_FILE_SIZE + 1, DocHi),
    File(<<"huge", "pdf">>, MAX_CONTENT_LENGTH + 1, DocHi) }

FieldNames == {"job_description", "skills", "experience", "education"}

GoodField == [present |-> TRUE, blank |-> FALSE, len |-> 100]
FieldValues(name) == {
    GoodField,
    [present |-> FALSE, blank |-> FALSE, len |-> 0],
    [present |-> TRUE, blank |-> TRUE, len |-> 3],
    [present |-> TRUE, blank |-> FALSE, len |-> FieldLimit[name]],
    [present |-> TRUE, blank |-> FALSE, len |-> FieldLimit[name] + 1] }

GoodMeta == [name \in FieldNames |-> GoodField]

\* the stripped values of the four fields
JobText == [description |-> <<Word, Word>>, skills |-> <<"flask", ",", " ", "Docker">>,
            experience |-> <<Num(3), Years>>,
            education |-> <<"BSc", "Computer", "Science">>]

GoodForm == [meta |-> GoodMeta, text |-> JobText]

\* the forms with one field varied, and one with two faults
Forms ==
    UNION { { [meta |-> [GoodMeta EXCEPT ![name] = val], text |-> JobText] :
                val \in FieldValues(name) } : name \in FieldNames }
    \cup
    { [meta |-> [GoodMeta EXCEPT
                    !["job_description"] = [present |-> TRUE, blank |-> FALSE,
                                            len |-> FieldLimit["job_description"] + 1],
                    !["skills"] = [present |-> FALSE, blank |-> FALSE, len |-> 0]],
       text |-> JobText] }

Requests ==
    { [form |-> f, files |-> fs] : f \in Forms, fs \in SeqsUpTo(Files, 1) }
    \cup
    { [form |-> GoodForm, files |-> fs] : fs \in SeqsUpTo(Files, MAX_FILES + 1) }

\* the Content-Length of the request: the bytes of the files and of the form
\* fields (the multipart framing left out)
ContentLength(req) ==
    SeqSum([h \in 1..Len(req.files) |-> req.files[h].size])
    + SeqSum([h \in 1..Len(required_fields) |-> req.form.meta[required_fields[h]].len])

----------------------------------------------------------------------------
(* app.py: predictbert *)

Init ==
    /\ pc = "idle"
    /\ request = IdleRequest
    /\ job_data = None
    /\ ranked_resumes = <<>>
    /\ errors = <<>>
    /\ i = 0
    /\ touched = <<>>
    /\ response = None
    /\ ScIdle
    /\ ExIdle
    /\ CfgIdle
    /\ SgIdle

\* a POST to /predictbert arrives
Receive ==
    /\ pc = "idle"
    /\ \E req \in Requests :
          request' = [form |-> req.form, files |-> req.files,
                      content_length |-> ContentLength(req)]
    /\ pc' = "validate_job_data"
    /\ UNCHANGED <<job_data, ranked_resumes, errors, i, touched, response, scVars, exVars, cfgVars, sgVars>>

\* job_data = validate_job_data(request.form): reading request.form parses the
\* body, which Flask refuses with RequestEntityTooLarge when the request is
\* longer than MAX_CONTENT_LENGTH
ValidateJobData ==
    /\ pc = "validate_job_data"
    /\ IF request.content_length > MAX_CONTENT_LENGTH
       THEN /\ response' = [status |-> 413, error |-> "Request Too Large"]
            /\ pc' = "done"
            /\ UNCHANGED job_data
       ELSE LET r == validate_job_data(request.form)
            IN  IF r.raised
                THEN /\ response' = [status |-> 400, error |-> "Bad Request",
                                     message |-> r.message]
                     /\ pc' = "done"
                     /\ UNCHANGED job_data
                ELSE /\ job_data' = r.value
                     /\ pc' = "validate_files"
                     /\ UNCHANGED response
    /\ UNCHANGED <<request, ranked_resumes, errors, i, touched, scVars, exVars, cfgVars, sgVars>>

\* files = request.files.getlist("resumes"); validate_files(files)
ValidateFiles ==
    /\ pc = "validate_files"
    /\ LET r == validate_files(request.files)
       IN  IF r.raised
           THEN /\ response' = [status |-> 400, error |-> "Bad Request",
                                message |-> r.message]
                /\ pc' = "done"
                /\ UNCHANGED i
           ELSE /\ pc' = "loop"
                /\ i' = 1
                /\ UNCHANGED response
    /\ UNCHANGED <<request, job_data, ranked_resumes, errors, touched, scVars, exVars, cfgVars, sgVars>>

\* a variant whose turn works on the text of the first file again
ProcessResume_stale ==
    /\ pc = "loop"
    /\ i <= Len(request.files)
    /\ \E up \in [ScoreKeys -> BOOLEAN] :
          \E out \in {process_single_resume(
                          [request.files[1] EXCEPT !.filename = request.files[i].filename],
                          job_data, i, up)} :
              IF out.ok
              THEN /\ ranked_resumes' = Append(ranked_resumes, out.result)
                   /\ UNCHANGED errors
              ELSE /\ errors' = Append(errors, ErrorEntry(request.files, i, out.error))
                   /\ UNCHANGED ranked_resumes
    /\ touched' = Append(touched, i)
    /\ i' = i + 1
    /\ UNCHANGED <<pc, request, job_data, response, scVars, exVars, cfgVars, sgVars>>

\* one turn of the loop over files
ProcessResume ==
    /\ pc = "loop"
    /\ i <= Len(request.files)
    /\ \E up \in [ScoreKeys -> BOOLEAN] :
          \E out \in {process_single_resume(request.files[i], job_data, i, up)} :
              IF out.ok
              THEN /\ ranked_resumes' = Append(ranked_resumes, out.result)
                   /\ UNCHANGED errors
              ELSE /\ errors' = Append(errors, ErrorEntry(request.files, i, out.error))
                   /\ UNCHANGED ranked_resumes
    /\ touched' = Append(touched, i)
    /\ i' = i + 1
    /\ UNCHANGED <<pc, request, job_data, response, scVars, exVars, cfgVars, sgVars>>

\* a variant that counts every uploaded file as processed
Respond_counts_uploads ==
    /\ pc = "loop"
    /\ i > Len(request.files)
    /\ ranked_resumes' = SortByTs(ranked_resumes)
    /\ response' = [status |-> 200, success |-> TRUE,
                    total_processed |-> Len(request.files),
                    total_failed |-> Len(errors),
                    results |-> ranked_resumes',
                    errors |-> errors]
    /\ pc' = "done"
    /\ UNCHANGED <<request, job_data, errors, i, touched, scVars, exVars, cfgVars, sgVars>>

\* after the loop: the sort and the response (its "errors" key is left out
\* when errors is empty)
Respond ==
    /\ pc = "loop"
    /\ i > Len(request.files)
    /\ ranked_resumes' = SortByTs(ranked_resumes)
    /\ response' = [status |-> 200, success |-> TRUE,
                    total_processed |-> Len(ranked_resumes'),
                    total_failed |-> Len(errors),
                    results |-> ranked_resumes',
                    errors |-> errors]
    /\ pc' = "done"
    /\ UNCHANGED <<request, job_data, errors, i, touched, scVars, exVars, cfgVars, sgVars>>

Next ==
    \/ Receive
    \/ ValidateJobData
    \/ ValidateFiles
    \/ ProcessResume
    \/ Respond

Spec == Init /\ [][Next]_vars

----------------------------------------------------------------------------
(* The claims about a request to /predictbert *)

\* what the claims say of a request, stated on the request itself
FieldInvalid(name) ==
    \/ ~request.form.meta[name].present
    \/ request.form.meta[name].blank
    \/ request.form.meta[name].len > FieldLimit[name]

NotPdf(filename) ==
    \/ Len(filename) < 2
    \/ filename[Len(filename)] \notin {"pdf", "PDF", "Pdf"}

FileInvalid(h) ==
    \/ request.files[h].filename = <<>>
    \/ NotPdf(request.files[h].filename)
    \/ request.files[h].size > 10 * 1024 * 1024

RequestInvalid ==
    \/ \E name \in FieldNames : FieldInvalid(name)
    \/ request.files = <<>>
    \/ Len(request.files) > MAX_FILES
    \/ \E h \in 1..Len(request.files) : FileInvalid(h)

\* the document cannot be processed: unreadable, under 50 characters of
\* text, or the similarity provider fails on it
Fails(h) ==
    \/ ~request.files[h].doc.readable
    \/ request.files[h].doc.stripped_len < 50
    \/ ~request.files[h].doc.provider_ok

FailingUploads == { h \in 1..Len(request.files) : Fails(h) }
PassingUploads == { h \in 1..Len(request.files) : ~Fails(h) }

RECURSIVE FailingNames(_)
FailingNames(h) ==
    IF h = 0 THEN <<>>
    ELSE IF Fails(h) THEN Append(FailingNames(h - 1), request.files[h].filename)
    ELSE FailingNames(h - 1)

\* a request has arrived; it has been answered
Received == pc \in {"validate_job_data", "validate_files", "loop", "done"}
Answered == pc = "done"

\* C1: in a validated batch a document whose processing fails is recorded
\* in errors under its own filename and counted in total_failed, every
\* other document is scored and counted in total_processed, and the answer
\* is a success
C1_FailureIsolation ==
    (Answered /\ ~RequestInvalid /\ request.content_length <= MAX_CONTENT_LENGTH) =>
        /\ response.status = 200
        /\ response.success
        /\ response.total_failed = Cardinality(FailingUploads)
        /\ response.total_processed = Cardinality(PassingUploads)
        /\ response.total_processed + response.total_failed = Len(request.files)
        /\ [h \in 1..Len(response.errors) |-> response.errors[h].filename]
              = FailingNames(Len(request.files))
        /\ { r.upload : r \in { response.results[h] : h \in 1..Len(response.results) } }
              = PassingUploads
        /\ Len(response.results) = Cardinality(PassingUploads)
        /\ \A h \in 1..Len(response.results) :
              response.results[h].filename
                  = request.files[response.results[h].upload].filename

\* a batch of three whose second document alone fails
C1_Witness ==
    /\ Answered
    /\ response.status = 200
    /\ Len(request.files) = 3
    /\ FailingUploads = {2}
    /\ response.total_processed = 2
    /\ response.total_failed = 1
    /\ response.errors[1].filename = request.files[2].filename
    /\ request.files[1].filename # request.files[2].filename

\* C2 as stated: every invalid request is answered 400 and nothing of it is
\* processed
C2_InvalidRejectedWith400 ==
    (Received /\ RequestInvalid) =>
        /\ touched = <<>>
        /\ Answered => response.status = 400

\* C2: an invalid request is rejected before any document is processed,
\* with 413 when its body is longer than MAX_CONTENT_LENGTH and with 400
\* otherwise
C2_InvalidRejected ==
    (Received /\ RequestInvalid) =>
        /\ touched = <<>>
        /\ ranked_resumes = <<>>
        /\ errors = <<>>
        /\ Answered =>
              response.status =
                  IF request.content_length > 50 * 1024 * 1024 THEN 413 ELSE 400

\* an oversized file rejected with 400, nothing processed
C2_Witness ==
    /\ Answered
    /\ \E h \in 1..Len(request.files) :
          /\ request.files[h].size > 10 * 1024 * 1024
          /\ request.files[h].filename # <<>>
          /\ ~NotPdf(request.files[h].filename)
    /\ \A name \in FieldNames : ~FieldInvalid(name)
    /\ Len(request.files) = 2
    /\ response.status = 400
    /\ touched = <<>>

\* C3: the results of a 200 answer are in non-increasing order of ts
C3_ResultsSortedByTs ==
    (Answered /\ response.status = 200) =>
        \A h \in 1..(Len(response.results) - 1) :
            response.results[h].ts >= response.results[h + 1].ts

\* three results that were uploaded lowest first
C3_Witness ==
    /\ Answered
    /\ response.status = 200
    /\ Len(response.results) = 3
    /\ response.results[1].ts > response.results[3].ts
    /\ response.results[1].upload > response.results[3].upload

\* C4: results with equal ts stay in upload order
C4_TiesKeepUploadOrder ==
    (Answered /\ response.status = 200) =>
        \A g, h \in 1..Len(response.results) :
            (g < h /\ response.results[g].ts = response.results[h].ts) =>
                response.results[g].upload < response.results[h].upload

\* two different files with equal ts behind a lower one uploaded first
C4_Witness ==
    /\ Answered
    /\ response.status = 200
    /\ Len(response.results) = 3
    /\ response.results[1].ts = response.results[2].ts
    /\ response.results[1].filename # response.results[2].filename
    /\ response.results[3].upload = 1

----------------------------------------------------------------------------
(* More claims about extract_experience *)

\* texts whose only date ranges are 2015-2018 and 2019-2021, with no explicit
\* mention and no education section
TwoWorkRanges == {
    <<Num(2015), Dash, Num(2018), Word, Num(2019), Dash, Num(2021)>>,
    <<Num(2015), Dash, Num(2018), Num(2019), Dash, Num(2021)>>,
    <<Num(2019), To, Num(2021), Word, Word, Num(2015), Dash, Num(2018)>> }

\* C11 as stated: on the two work ranges 2015-2018 and 2019-2021
\* extract_experience returns 6
C11_TwoRangesGiveSix ==
    (ex_out.op \in {"extract_experience", "extract_experience_lower"}
        /\ ex_text \in TwoWorkRanges) => ex_out.val = 6

\* C11: on the two work ranges 2015-2018 and 2019-2021, which do not touch,
\* extract_experience returns 5, the sum 3 + 2 of the two segments
C11_TwoRangesGiveFive ==
    (ex_out.op \in {"extract_experience", "extract_experience_lower"}
        /\ ex_text \in TwoWorkRanges) => ex_out.val = 5

\* the call on "2015-2018 ... 2019-2021" has returned
C11_Witness ==
    /\ ex_out.op = "extract_experience"
    /\ ex_text = <<Num(2015), Dash, Num(2018), Word, Num(2019), Dash, Num(2021)>>
    /\ ex_out.val = 3 + 2

----------------------------------------------------------------------------
(* utils/similarity.py: get_calculator, and                                 *)
(* services/similarityService.py: get_similarity_calculator, called by     *)
(* request threads.  A thread may be preempted between any two statements. *)

MaxThreads == 3
Threads == 1..MaxThreads

ThreadIdle == [pc |-> "idle", local |-> 0, result |-> 0]

InitSingleton ==
    /\ ReqIdle
    /\ ScIdle
    /\ ExIdle
    /\ CfgIdle
    /\ utils_calculator = 0
    /\ service_calculator = 0
    /\ constructed = 0
    /\ th = [t \in Threads |-> ThreadIdle]
    /\ FacIdle

\* the thread moves to position p
Goto(t, p) == th' = [th EXCEPT ![t].pc = p]

\* a request thread calls get_calculator()
CallGetCalculator(t) ==
    /\ th[t].pc = "idle"
    /\ Goto(t, "get_calculator")
    /\ UNCHANGED <<utils_calculator, service_calculator, constructed,
                   reqVars, scVars, exVars, cfgVars, facVars>>

\* get_calculator: if _similarity_calculator is None
UtilsCheck(t) ==
    /\ th[t].pc = "get_calculator"
    /\ IF utils_calculator = 0
       THEN Goto(t, "get_similarity_calculator")
       ELSE Goto(t, "utils_return")
    /\ UNCHANGED <<utils_calculator, service_calculator, constructed,
                   reqVars, scVars, exVars, cfgVars, facVars>>

\* get_similarity_calculator('bert'): if _similarity_calculator is None
ServiceCheck(t) ==
    /\ th[t].pc = "get_similarity_calculator"
    /\ IF service_calculator = 0
       THEN Goto(t, "construct")
       ELSE Goto(t, "service_return")
    /\ UNCHANGED <<utils_calculator, service_calculator, constructed,
                   reqVars, scVars, exVars, cfgVars, facVars>>

\* BERTSimilarityCalculator(): a new instance, named by its number
Construct(t) ==
    /\ th[t].pc = "construct"
    /\ constructed' = constructed + 1
    /\ th' = [th EXCEPT ![t].pc = "service_store", ![t].local = constructed + 1]
    /\ UNCHANGED <<utils_calculator, service_calculator,
                   reqVars, scVars, exVars, cfgVars, facVars>>

\* _similarity_calculator = <the new instance>
ServiceStore(t) ==
    /\ th[t].pc = "service_store"
    /\ service_calculator' = th[t].local
    /\ Goto(t, "service_return")
    /\ UNCHANGED <<utils_calculator, constructed,
                   reqVars, scVars, exVars, cfgVars, facVars>>

\* return _similarity_calculator
ServiceReturn(t) ==
    /\ th[t].pc = "service_return"
    /\ th' = [th EXCEPT ![t].pc = "utils_store", ![t].local = service_calculator]
    /\ UNCHANGED <<utils_calculator, service_calculator, constructed,
                   reqVars, scVars, exVars, cfgVars, facVars>>

\* get_calculator: _similarity_calculator = get_similarity_calculator('bert')
UtilsStore(t) ==
    /\ th[t].pc = "utils_store"
    /\ utils_calculator' = th[t].local
    /\ Goto(t, "utils_return")
    /\ UNCHANGED <<service_calculator, constructed,
                   reqVars, scVars, exVars, cfgVars, facVars>>

\* get_calculator: return _similarity_calculator
UtilsReturn(t) ==
    /\ th[t].pc = "utils_return"
    /\ th' = [th EXCEPT ![t].pc = "done", ![t].result = utils_calculator]
    /\ UNCHANGED <<utils_calculator, service_calculator, constructed,
                   reqVars, scVars, exVars, cfgVars, facVars>>

NextSingleton ==
    \E t \in Threads :
        \/ CallGetCalculator(t)
        \/ UtilsCheck(t)
        \/ ServiceCheck(t)
        \/ Construct(t)
        \/ ServiceStore(t)
        \/ ServiceReturn(t)
        \/ UtilsStore(t)
        \/ UtilsReturn(t)

SpecSingleton == InitSingleton /\ [][NextSingleton]_vars

\* C12: at most one calculator is ever constructed, and all callers of
\* get_calculator are returned the same instance
C12_SingleInstance ==
    /\ constructed <= 1
    /\ \A t, u \in Threads :
          (th[t].pc = "done" /\ th[u].pc = "done") => th[t].result = th[u].result

----------------------------------------------------------------------------
(* config/scoring_config.py: the module load, which app.py triggers by     *)
(* importing utils/scoring.py.  Weights are in thousandths.                *)

WeightScale == 10 * 100
\* the 0.01 of validate_weights, in thousandths
WeightTolerance == 10

\* what the environment may set the four weights to
WeightConfigs ==
    [general : {89, 90, 91, 100, 109, 110, 111}, skills : {400, 250},
     experience : {300}, education : {200}]

\* a variant that accepts any weights
validate_weights_unchecked(w, over) == FALSE

\* TRUE when validate_weights raises.  total and 1.0 - total are binary
\* floats: when the decimal sum is exactly 0.01 away from 1.0 the rounding
\* of the float sum decides the comparison with 0.01, and over tells how
validate_weights(w, over) ==
    LET total == w.general + w.skills + w.experience + w.education
        dist == IF total >= WeightScale THEN total - WeightScale
                ELSE WeightScale - total
    IN  \/ dist > WeightTolerance
        \/ dist = WeightTolerance /\ over

InitLoad ==
    /\ ReqIdle
    /\ ScIdle
    /\ ExIdle
    /\ SgIdle
    /\ weights \in WeightConfigs
    /\ load = "importing"

\* import of config.scoring_config: the module body ends in validate_weights()
ImportScoringConfig ==
    /\ load = "importing"
    /\ \E over \in BOOLEAN :
          load' = IF validate_weights(weights, over) THEN "raised" ELSE "loaded"
    /\ UNCHANGED <<weights, reqVars, scVars, exVars, sgVars>>

\* the imports of app.py are done and app.run() starts to serve
StartApp ==
    /\ load = "loaded"
    /\ pc = "off"
    /\ pc' = "idle"
    /\ UNCHANGED <<request, job_data, ranked_resumes, errors, i, touched, response,
                   scVars, exVars, cfgVars, sgVars>>

NextLoad ==
    \/ ImportScoringConfig
    \/ StartApp
    \/ Receive

SpecLoad == InitLoad /\ [][NextLoad]_vars

WeightSum == weights.general + weights.skills + weights.experience + weights.education
WeightDistance == Abs(WeightSum - 1000)
Serving == pc # "off"

\* C13 as stated: a sum more than 0.01 away from 1.0 makes the load raise and
\* the application never serves; a sum within 0.01 of 1.0 loads
C13_WeightsWithinToleranceLoad ==
    /\ WeightDistance > 10 => (~Serving /\ load \in {"importing", "raised"})
    /\ load = "raised" => ~Serving
    /\ WeightDistance <= 10 => load \in {"importing", "loaded"}

\* C13: a sum more than 0.01 away from 1.0 makes the load raise and the
\* application never serves; a sum less than 0.01 away from 1.0 loads (at
\* exactly 0.01 the rounding of the float sum decides)
C13_WeightsValidatedAtLoad ==
    /\ WeightDistance > 10 => (~Serving /\ load \in {"importing", "raised"})
    /\ load = "raised" => ~Serving
    /\ WeightDistance < 10 => load \in {"importing", "loaded"}

\* weights that sum to 0.85 have made the load raise
C13_Witness ==
    /\ WeightSum = 850
    /\ load = "raised"
    /\ ~Serving

----------------------------------------------------------------------------
(* One call of generate_explanation, filter_skills or extract_num_years *)

\* score breakdowns around the thresholds, in hundredths of a point
ExplanationScores ==
    [ss : {2999, 3000, 3001}, ex : {1999, 2000, 2001, 3600},
     ed : {1199, 1200, 1201}, ge : {699, 700, 701}, ts : {8300}]

CallsOfGenerateExplanation == [op : {"generate_explanation"}, scores : ExplanationScores]

CallGenerateExplanation ==
    /\ sc_out = None
    /\ sc_in.op = "generate_explanation"
    /\ sc_out' = [op |-> sc_in.op, val |-> generate_explanation(sc_in.scores)]
    /\ UNCHANGED <<sc_in, reqVars, exVars, cfgVars, sgVars>>

\* C14: each sentence of generate_explanation is the positive one exactly
\* when the sub-score is strictly above its threshold (30, 20, 12, 7), so a
\* sub-score equal to the threshold gets the negative sentence, whatever
\* the other three sub-scores are
C14_StrictThresholds ==
    sc_out.op = "generate_explanation" =>
        /\ Len(sc_out.val) = 4
        /\ sc_out.val[1] = IF sc_in.scores.ss > 3000 THEN "SS: strong skill."
                           ELSE "SS: lacks some required skills."
        /\ sc_out.val[2] = IF sc_in.scores.ex > 2000 THEN "EX: relevant work experience."
                           ELSE "EX: less experience."
        /\ sc_out.val[3] = IF sc_in.scores.ed > 1200
                           THEN "ED: meets the required qualifications."
                           ELSE "ED: does not fully meet the qualifications."
        /\ sc_out.val[4] = IF sc_in.scores.ge > 700 THEN "GS: aligns well."
                           ELSE "GS: does not strongly align."

\* ss exactly 30 gets the negative sentence next to a positive one for ex
C14_Witness ==
    /\ sc_out.op = "generate_explanation"
    /\ sc_in.scores.ss = 3000
    /\ sc_in.scores.ex = 2001
    /\ sc_out.val[1] = "SS: lacks some required skills."
    /\ sc_out.val[2] = "EX: relevant work experience."

MaxSkillsLen == 5

\* job-skill strings and applicant skills
SkillPieces == {"python", "py", ",", " "}
JobSkillStrings == SeqsUpTo(SkillPieces, MaxSkillsLen)
ApplicantSkillSets == SUBSET { <<"python">>, <<"py">>, <<"py", ",", "python">> }
JobSkillLists == { <<>>, << <<"python">> >>, << <<"py">>, <<" ", "python">> >> }

CallsOfFilterSkills ==
    [op : {"filter_skills"}, applicant_skills : ApplicantSkillSets,
     job_skills : [kind : {"str"}, val : JobSkillStrings]
                  \cup [kind : {"list"}, val : JobSkillLists]]

CallFilterSkills ==
    /\ sc_out = None
    /\ sc_in.op = "filter_skills"
    /\ sc_out' = [op |-> sc_in.op,
                  val |-> filter_skills(sc_in.applicant_skills, sc_in.job_skills)]
    /\ UNCHANGED <<sc_in, reqVars, exVars, cfgVars, sgVars>>

\* a "," followed by " " starts at piece j
IsSepAt(str, j) == j >= 1 /\ j + 1 <= Len(str) /\ str[j] = "," /\ str[j + 1] = " "

\* the string without its leading and trailing blanks
Trimmed(str) ==
    LET solid == { j \in 1..Len(str) : str[j] # " " }
    IN  IF solid = {} THEN <<>>
        ELSE SubSeq(str, CHOOSE j \in solid : \A h \in solid : j <= h,
                         CHOOSE j \in solid : \A h \in solid : j >= h)

\* the trimmed tokens of a string split on ", ": the stretches from the
\* start or the end of a separator to the start of a separator or the end
JobTokens(str) ==
    { Trimmed(SubSeq(str, ab[1], ab[2])) :
        ab \in { p \in (1..(Len(str) + 1)) \X (0..Len(str)) :
                    /\ p[2] >= p[1] - 1
                    /\ p[1] = 1 \/ IsSepAt(str, p[1] - 2)
                    /\ p[2] = Len(str) \/ IsSepAt(str, p[2] + 1)
                    /\ \A j \in p[1]..p[2] : ~IsSepAt(str, j) } }

\* C15: filter_skills returns exactly the applicant skills equal, as whole
\* strings, to a trimmed token of the job-skill string split on ", " (to an
\* element of the job-skill list, when a list is given): a subset of
\* applicant_skills with no partial match
C15_FilterSkillsExact ==
    sc_out.op = "filter_skills" =>
        /\ sc_out.val \subseteq sc_in.applicant_skills
        /\ sc_in.job_skills.kind = "str" =>
              sc_out.val = sc_in.applicant_skills \cap JobTokens(sc_in.job_skills.val)
        /\ sc_in.job_skills.kind = "list" =>
              sc_out.val = { skill \in sc_in.applicant_skills :
                               \E j \in 1..Len(sc_in.job_skills.val) :
                                   sc_in.job_skills.val[j] = skill }

\* "python, pypython": python matches, py is only a part of "pypython"
C15_Witness ==
    /\ sc_out.op = "filter_skills"
    /\ sc_in.applicant_skills = { <<"python">>, <<"py">> }
    /\ sc_in.job_skills = [kind |-> "str", val |-> <<"python", ",", " ", "py", "python">>]
    /\ sc_out.val = { <<"python">> }

MaxRanges == 3

\* lists of ranges with start <= end
RangeYears == 2015..2018
OrderedRanges == { r \in RangeYears \X RangeYears : r[1] <= r[2] }

CallsOfExtractNumYears ==
    [op : {"extract_num_years"}, years : SeqsUpTo(OrderedRanges, MaxRanges)]

CallExtractNumYears ==
    /\ sc_out = None
    /\ sc_in.op = "extract_num_years"
    /\ sc_out' = [op |-> sc_in.op, val |-> extract_num_years(sc_in.years)]
    /\ UNCHANGED <<sc_in, reqVars, exVars, cfgVars, sgVars>>

\* utils/text_processing.py: clean_text, and the vocabulary matching of
\* extract_entities.  A string is the sequence of its pieces: runs of letters
\* and digits, special characters, and " " for white space; pieces that
\* follow each other without a " " make one word
MaxCleanLen == 5

Pieces == {" ", ".", "on", "ruby", "rails", "node", "js", "git", "Git"}

\* str.lower()
LowerPiece(p) ==
    CASE p = "Git" -> "git"
      [] p = "Node" -> "node"
      [] p = "Ruby" -> "ruby"
      [] p = "Rails" -> "rails"
      [] OTHER -> p
LowerStr(str) == [j \in 1..Len(str) |-> LowerPiece(str[j])]

\* a match of [^a-zA-Z0-9\s]
IsSpecial(p) == p \in {".", "/", "(", ")", "-"}

\* STOP_WORDS, a part of it
STOP_WORDS == { <<"on">>, <<"and">> }

\* str.split(): the words between the runs of white space, scanning from
\* piece j; cur is the word under way
RECURSIVE SplitWords(_, _, _, _)
SplitWords(str, j, cur, words) ==
    IF j > Len(str)
    THEN IF cur = <<>> THEN words ELSE Append(words, cur)
    ELSE IF str[j] = " "
         THEN SplitWords(str, j + 1, <<>>,
                         IF cur = <<>> THEN words ELSE Append(words, cur))
         ELSE SplitWords(str, j + 1, Append(cur, str[j]), words)

\* " ".join(words)
RECURSIVE JoinWords(_)
JoinWords(words) ==
    IF words = <<>> THEN <<>>
    ELSE IF Len(words) = 1 THEN words[1]
    ELSE words[1] \o <<" ">> \o JoinWords(Tail(words))

NotSpecial(p) == ~IsSpecial(p)
NotStopWord(word) == word \notin STOP_WORDS

\* a variant that leaves the stopwords in
clean_text_keeps_stopwords(text) ==
    JoinWords(SplitWords(SelectSeq(LowerStr(text), NotSpecial), 1, <<>>, <<>>))

clean_text(text) ==
    IF \A j \in 1..Len(text) : text[j] = " "
    THEN <<>>
    ELSE JoinWords(SelectSeq(
            SplitWords(SelectSeq(LowerStr(text), NotSpecial), 1, <<>>, <<>>),
            NotStopWord))

\* {skill.lower() for skill in skill_dataset}, a part of it, in pieces:
\* "node.js", "ruby on rails", "git"
SkillEntries ==
    { LowerStr(entry) : entry \in { <<"Node", ".", "js">>,
                                    <<"Ruby", " ", "on", " ", "Rails">>,
                                    <<"Git">> } }

\* {skill for skill in skill_data if skill in text}, text the cleaned text
MatchedSkills(text) ==
    { skill \in SkillEntries : Contains(clean_text(LowerStr(text)), skill) }

CallsOfExtractEntities ==
    [op : {"extract_entities"}, text : SeqsUpTo(Pieces, MaxCleanLen)]

CallExtractEntities ==
    /\ sc_out = None
    /\ sc_in.op = "extract_entities"
    /\ sc_out' = [op |-> sc_in.op, val |-> MatchedSkills(sc_in.text)]
    /\ UNCHANGED <<sc_in, reqVars, exVars, cfgVars, sgVars>>

InitCalls ==
    /\ ReqIdle
    /\ ExIdle
    /\ CfgIdle
    /\ SgIdle
    /\ sc_in \in CallsOfGenerateExplanation \cup CallsOfFilterSkills
                 \cup CallsOfExtractNumYears \cup CallsOfExtractEntities
    /\ sc_out = None

NextCalls ==
    \/ CallGenerateExplanation
    \/ CallFilterSkills
    \/ CallExtractNumYears
    \/ CallExtractEntities

SpecCalls == InitCalls /\ [][NextCalls]_vars

\* the length of the union of the closed intervals: the years y whose
\* [y, y + 1] lies in one of the ranges
UnionLength(ranges) ==
    Cardinality({ y \in RangeYears : \E r \in ranges : r[1] <= y /\ y + 1 <= r[2] })

RangeSet(years) == { years[j] : j \in 1..Len(years) }

\* C19: extract_num_years returns the total length of the union of the
\* ranges (touching and overlapping ranges merged, gaps left out), which
\* depends on the set of ranges only, not on their order or repetition, and
\* is 0 for the empty list
C19_MergedUnionLength ==
    sc_out.op = "extract_num_years" =>
        /\ sc_out.val = UnionLength(RangeSet(sc_in.years))
        /\ sc_in.years = <<>> => sc_out.val = 0

\* a later range given first, a touching range and a gap:
\* 2017-2018, 2015-2016, 2016-2016 give 1 + 1
C19_Witness ==
    /\ sc_out.op = "extract_num_years"
    /\ sc_in.years = << <<2017, 2018>>, <<2015, 2016>>, <<2016, 2016>> >>
    /\ sc_out.val = 2

----------------------------------------------------------------------------
(* More claims about a request to /predictbert *)

\* the uploads that are in a list of results
UploadsIn(results) == { results[h].upload : h \in 1..Len(results) }

\* the filenames of the uploads outside a set, in upload order
RECURSIVE NamesOutside(_, _)
NamesOutside(uploads, h) ==
    IF h = 0 THEN <<>>
    ELSE IF h \in uploads THEN NamesOutside(uploads, h - 1)
    ELSE Append(NamesOutside(uploads, h - 1), request.files[h].filename)

\* C16: a request that passes validation is answered with total_processed
\* and total_failed, the lengths of results and errors; every uploaded file
\* is in exactly one of the two lists, so the counts add up to the number
\* of files (and, during the loop, to the number of files handled so far)
C16_CountsPartitionUploads ==
    /\ pc = "loop" =>
          /\ Len(ranked_resumes) + Len(errors) = i - 1
          /\ Cardinality(UploadsIn(ranked_resumes)) = Len(ranked_resumes)
    /\ (Answered /\ ~RequestInvalid /\ request.content_length <= MAX_CONTENT_LENGTH) =>
          /\ {"total_processed", "total_failed"} \subseteq DOMAIN response
          /\ response.total_processed = Len(response.results)
          /\ response.total_failed = Len(response.errors)
          /\ Cardinality(UploadsIn(response.results)) = Len(response.results)
          /\ UploadsIn(response.results) \subseteq 1..Len(request.files)
          /\ [h \in 1..Len(response.errors) |-> response.errors[h].filename]
                = NamesOutside(UploadsIn(response.results), Len(request.files))
          /\ response.total_processed + response.total_failed = Len(request.files)

\* three files, one scored and two failed
C16_Witness ==
    /\ Answered
    /\ response.status = 200
    /\ Len(request.files) = 3
    /\ response.total_processed = 1
    /\ response.total_failed = 2

\* a result record without the history field
WithoutUpload(r) == [k \in DOMAIN r \ {"upload"} |-> r[k]]

\* the records a document gets when it is processed on its own with the job
\* data of the form; up is the direction in which the float arithmetic
\* rounds a score that lies halfway between two hundredths
AloneResults(file, form) ==
    { WithoutUpload(process_single_resume(file, form.text, 1, up).result) :
        up \in [ScoreKeys -> BOOLEAN] }

----------------------------------------------------------------------------
(* More claims about extract_experience, continued *)

\* the text extract_experience was called on
CalledText ==
    IF ex_out.op = "extract_experience_lower" THEN Lower(ex_text) ELSE ex_text
Returned == ex_out.op \in {"extract_experience", "extract_experience_lower"}

\* C18: the experience returned is a non-negative integer for every text,
\* on the explicit-mention path and on the date-range path, where every
\* range get_years retains has start_year <= end_year
C18_ExperienceNonNegative ==
    Returned =>
        /\ ex_out.val \in Nat
        /\ \A j \in 1..Len(get_years(CalledText)) :
              get_years(CalledText)[j][1] <= get_years(CalledText)[j][2]

\* "2018 - 2015", a range with its start after its end, gives 0
C18_Witness ==
    /\ ex_out.op = "extract_experience"
    /\ ex_text = <<Num(2018), Dash, Num(2015)>>
    /\ ex_out.val = 0

\* the years covered by a set of ranges: the length of their union
TotalCovered(ranges) == Cardinality(UNION { r[1]..(r[2] - 1) : r \in ranges })

\* the ranges of the education substring, and the ranges of the whole text
\* that are none of them
EducationRanges(text) == RangeSet(get_years(get_education_text(text)))
WorkRanges(text) == RangeSet(get_years(text)) \ EducationRanges(text)

\* C20: without an explicit years mention extract_experience returns the
\* merged total of exactly the ranges of the text that are not ranges of
\* its education substring
C20_EducationRangesExcluded ==
    (Returned /\ MentionValues(CalledText) = {}) =>
        ex_out.val = TotalCovered(WorkRanges(CalledText))

\* "education 2010-2014 work 2015-2018" gives the 3 years of the work range
C20_Witness ==
    /\ ex_out.op = "extract_experience"
    /\ ex_text = <<Edu, Num(2010), Dash, Num(2014), Work, Num(2015), Dash, Num(2018)>>
    /\ EducationRanges(ex_text) = { <<2010, 2014>> }
    /\ ex_out.val = 3

(* get_education_text *)

\* the positions of "education" and of "work" / "experience" in a text
EduAt(text) == { j \in 1..Len(text) : text[j] = Edu }
WorkAt(text) == { j \in 1..Len(text) : text[j] = Work }

CappedRatio(resume_years, n) ==
    IF resume_years * MaxScalingDen <= MaxScalingNum * n
    THEN <<resume_years, n>>
    ELSE <<MaxScalingNum, MaxScalingDen>>

\* C22: a requirement that states N > 0 years, in any letter case, gives
\* job_years = N, so compute_experience_score returns
\* min(resume_years / N, cap) * similarity and not the no-requirement score
C22_JobYearsAnyLetterCase ==
    (/\ sc_out.op = "compute_experience_score"
     /\ MentionValues(Lower(sc_in.job_exp)) # {}
     /\ SetMax(MentionValues(Lower(sc_in.job_exp))) > 0) =>
        LET ratio == CappedRatio(sc_in.resume_years,
                                 SetMax(MentionValues(Lower(sc_in.job_exp))))
        IN  sc_out.val[1] * ratio[2] = ratio[1] * sc_in.similarity_score * sc_out.val[2]

----------------------------------------------------------------------------
(* services/similarityService.py and utils/similarity.py: the factory, its  *)
(* reset, the cached accessor and /ready, called one after another.         *)
(* Calculators are named by their number of construction; 0 stands for None *)

MaxCalls == 4

CalculatorTypes == {"bert", "mock", "invalid_type"}

Returns(v) == [status |-> "returned", val |-> v]
Raises(e) == [status |-> e, val |-> 0]

\* BERTSimilarityCalculator(): _model is None, unless lazy loading is off and
\* __init__ loads the model.  MockSimilarityCalculator has no _model
NewCalculator(calculator_type) ==
    IF calculator_type = "bert"
    THEN [class |-> "BERTSimilarityCalculator", model_loaded |-> ~lazy_loading]
    ELSE [class |-> "MockSimilarityCalculator", model_loaded |-> FALSE]

\* a variant that checks the type before it looks at the singleton
get_similarity_calculator_checks_first(calculator_type, ok) ==
    IF calculator_type \notin {"bert", "mock"}
    THEN [out |-> Raises("ValueError"), service |-> service_calculator,
          insts |-> instances]
    ELSE IF service_calculator # 0
    THEN [out |-> Returns(service_calculator), service |-> service_calculator,
          insts |-> instances]
    ELSE IF calculator_type = "bert" /\ ~lazy_loading /\ ~ok
    THEN [out |-> Raises("LoadError"), service |-> 0, insts |-> instances]
    ELSE [out |-> Returns(Len(instances) + 1), service |-> Len(instances) + 1,
          insts |-> Append(instances, NewCalculator(calculator_type))]

\* get_similarity_calculator(calculator_type): the outcome, the singleton and
\* the calculators after the call.  ok tells whether loading the model, if
\* the call loads it, succeeds
get_similarity_calculator(calculator_type, ok) ==
    IF service_calculator # 0
    THEN [out |-> Returns(service_calculator), service |-> service_calculator,
          insts |-> instances]
    ELSE IF calculator_type = "bert"
    THEN IF ~lazy_loading /\ ~ok
         \* SentenceTransformer(...) raises inside __init__: nothing is stored
         THEN [out |-> Raises("LoadError"), service |-> 0, insts |-> instances]
         ELSE [out |-> Returns(Len(instances) + 1), service |-> Len(instances) + 1,
               insts |-> Append(instances, NewCalculator("bert"))]
    ELSE IF calculator_type = "mock"
    THEN [out |-> Returns(Len(instances) + 1), service |-> Len(instances) + 1,
          insts |-> Append(instances, NewCalculator("mock"))]
    ELSE [out |-> Raises("ValueError"), service |-> 0, insts |-> instances]

\* get_calculator(): the outcome and the two singletons after the call
get_calculator(ok) ==
    IF utils_calculator # 0
    THEN [out |-> Returns(utils_calculator), utils |-> utils_calculator,
          service |-> service_calculator, insts |-> instances]
    ELSE LET r == get_similarity_calculator("bert", ok)
         IN  [out |-> r.out, utils |-> r.out.val, service |-> r.service,
              insts |-> r.insts]

InitFactory ==
    /\ ReqIdle
    /\ ScIdle
    /\ ExIdle
    /\ CfgIdle
    /\ utils_calculator = 0
    /\ service_calculator = 0
    /\ constructed = 0
    /\ th = <<>>
    /\ lazy_loading \in BOOLEAN
    /\ instances = <<>>
    /\ calls = <<>>

\* the calculator of the cache of utils/similarity.py has its model loaded
ModelLoaded ==
    /\ utils_calculator # 0
    /\ instances[utils_calculator].class = "BERTSimilarityCalculator"
    /\ instances[utils_calculator].model_loaded

\* the call joins the history, with whether the model was loaded before it
Logged(entry) ==
    calls' = Append(calls, [op |-> entry.op, arg |-> entry.arg, out |-> entry.out,
                            loaded_before |-> ModelLoaded])

CallGetSimilarityCalculator ==
    /\ Len(calls) < MaxCalls
    /\ \E calculator_type \in CalculatorTypes, ok \in BOOLEAN :
       \E r \in { get_similarity_calculator(calculator_type, ok) } :
          /\ service_calculator' = r.service
          /\ instances' = r.insts
          /\ constructed' = Len(r.insts)
          /\ Logged([op |-> "get_similarity_calculator", arg |-> calculator_type,
                     out |-> r.out])
    /\ UNCHANGED <<utils_calculator, th, lazy_loading, reqVars, scVars, exVars, cfgVars>>

\* a variant of the reset that leaves the singleton as it is
CallResetSimilarityCalculator_keeps ==
    /\ Len(calls) < MaxCalls
    /\ Logged([op |-> "reset_similarity_calculator", arg |-> "", out |-> Returns(0)])
    /\ UNCHANGED <<service_calculator, utils_calculator, constructed, instances, th,
                   lazy_loading, reqVars, scVars, exVars, cfgVars>>

\* a variant of the reset that clears the cache of utils/similarity.py too
CallResetSimilarityCalculator_clears_both ==
    /\ Len(calls) < MaxCalls
    /\ service_calculator' = 0
    /\ utils_calculator' = 0
    /\ Logged([op |-> "reset_similarity_calculator", arg |-> "", out |-> Returns(0)])
    /\ UNCHANGED <<constructed, instances, th, lazy_loading,
                   reqVars, scVars, exVars, cfgVars>>

CallResetSimilarityCalculator ==
    /\ Len(calls) < MaxCalls
    /\ service_calculator' = 0
    /\ Logged([op |-> "reset_similarity_calculator", arg |-> "", out |-> Returns(0)])
    /\ UNCHANGED <<utils_calculator, constructed, instances, th, lazy_loading,
                   reqVars, scVars, exVars, cfgVars>>

CallGetCalculatorCached ==
    /\ Len(calls) < MaxCalls
    /\ \E ok \in BOOLEAN :
       \E r \in { get_calculator(ok) } :
          /\ utils_calculator' = r.utils
          /\ service_calculator' = r.service
          /\ instances' = r.insts
          /\ constructed' = Len(r.insts)
          /\ Logged([op |-> "get_calculator", arg |-> "", out |-> r.out])
    /\ UNCHANGED <<th, lazy_loading, reqVars, scVars, exVars, cfgVars>>

\* compute_similarity of utils/similarity.py: the calculator's encode reads
\* its model property, which loads the model if _model is None
CallComputeSimilarity ==
    /\ Len(calls) < MaxCalls
    /\ \E ok \in BOOLEAN :
       \E r \in { get_calculator(ok) } :
          /\ utils_calculator' = r.utils
          /\ service_calculator' = r.service
          /\ constructed' = Len(r.insts)
          /\ IF r.out.status # "returned"
             THEN /\ instances' = r.insts
                  /\ Logged([op |-> "compute_similarity", arg |-> "", out |-> r.out])
             ELSE IF r.insts[r.utils].class = "MockSimilarityCalculator"
                     \/ r.insts[r.utils].model_loaded
             THEN /\ instances' = r.insts
                  /\ Logged([op |-> "compute_similarity", arg |-> "",
                             out |-> Returns(r.utils)])
             ELSE IF ok
             THEN /\ instances' = [r.insts EXCEPT ![r.utils].model_loaded = TRUE]
                  /\ Logged([op |-> "compute_similarity", arg |-> "",
                             out |-> Returns(r.utils)])
             ELSE /\ instances' = r.insts
                  /\ Logged([op |-> "compute_similarity", arg |-> "",
                             out |-> Raises("LoadError")])
    /\ UNCHANGED <<th, lazy_loading, reqVars, scVars, exVars, cfgVars>>

\* the status readiness_check answers for what get_calculator gave
ReadyStatus_loads(r) == IF r.out.status = "returned" THEN 200 ELSE 503

ReadyStatus(r) ==
    IF r.out.status # "returned" THEN 503
    \* calculator._model on a MockSimilarityCalculator raises AttributeError
    ELSE IF r.insts[r.utils].class = "MockSimilarityCalculator" THEN 503
    ELSE IF r.insts[r.utils].model_loaded THEN 200
    ELSE 503

\* GET /ready
ReadinessCheck ==
    /\ Len(calls) < MaxCalls
    /\ \E ok \in BOOLEAN :
       \E r \in { get_calculator(ok) } :
          /\ utils_calculator' = r.utils
          /\ service_calculator' = r.service
          /\ instances' = r.insts
          /\ constructed' = Len(r.insts)
          /\ Logged([op |-> "readiness_check", arg |-> "",
                     out |-> Returns(ReadyStatus(r))])
    /\ UNCHANGED <<th, lazy_loading, reqVars, scVars, exVars, cfgVars>>

NextFactory ==
    \/ CallGetSimilarityCalculator
    \/ CallResetSimilarityCalculator
    \/ CallGetCalculatorCached
    \/ CallComputeSimilarity
    \/ ReadinessCheck

SpecFactory == InitFactory /\ [][NextFactory]_vars

\* the latest call of the history
LastCall == calls[Len(calls)]
IsCall(op) == calls # <<>> /\ LastCall.op = op
InvalidGet ==
    /\ IsCall("get_similarity_calculator")
    /\ LastCall.arg \notin {"bert", "mock"}

\* C23 as stated: get_similarity_calculator with a type other than 'bert' and
\* 'mock' raises ValueError and leaves the singleton unset, whatever calls
\* came before it
C23_InvalidTypeAlwaysRaises ==
    InvalidGet =>
        /\ LastCall.out.status = "ValueError"
        /\ service_calculator = 0

\* C23, amended: such a call raises ValueError and leaves the singleton unset
\* when no instance is cached; when an instance is cached it returns that
\* instance without raising and leaves it cached
C23_InvalidTypeRaisesWhenUnset ==
    [][ (/\ Len(calls') = Len(calls) + 1
         /\ calls'[Len(calls')].op = "get_similarity_calculator"
         /\ calls'[Len(calls')].arg \notin {"bert", "mock"}) =>
            /\ service_calculator' = service_calculator
            /\ instances' = instances
            /\ calls'[Len(calls')].out =
                  IF service_calculator = 0
                  THEN Raises("ValueError")
                  ELSE Returns(service_calculator) ]_vars

\* an invalid type raised on the unset singleton and, once a mock calculator
\* was cached, was given that calculator
C23_Witness ==
    /\ Len(calls) = 3
    /\ calls[1].arg = "invalid_type" /\ calls[1].out = Raises("ValueError")
    /\ calls[2].arg = "mock" /\ calls[2].out = Returns(1)
    /\ calls[3].arg = "invalid_type" /\ calls[3].out = Returns(1)
    /\ service_calculator = 1

\* call k of the history is a get_similarity_calculator that returned, or a
\* reset
GetAt(k) ==
    /\ calls[k].op = "get_similarity_calculator"
    /\ calls[k].out.status = "returned"
ResetAt(k) == calls[k].op = "reset_similarity_calculator"

\* C24: in a sequence of calls, whatever other calls it holds, two
\* get_similarity_calculator calls with no reset between them
\* return the same instance, and a get after a reset returns an instance
\* constructed after that reset, different from every instance returned
\* before it
C24_SingletonLifecycle ==
    \A j, k \in 1..Len(calls) :
        (j < k /\ GetAt(j) /\ GetAt(k)) =>
            IF \E m \in (j + 1)..(k - 1) : ResetAt(m)
            THEN /\ calls[k].out.val # calls[j].out.val
                 /\ calls[k].out.val <= constructed
                 /\ calls[k].out.val > calls[j].out.val
            ELSE calls[k].out.val = calls[j].out.val

\* get, get, reset, get: the first two gave instance 1, the last one a second
\* instance
C24_Witness ==
    /\ Len(calls) = 4
    /\ GetAt(1) /\ GetAt(2) /\ ResetAt(3) /\ GetAt(4)
    /\ calls[1].out.val = 1
    /\ calls[2].out.val = 1
    /\ calls[4].out.val = 2
    /\ constructed = 2

\* call k of the history is a get_calculator that returned
CachedGetAt(k) ==
    /\ calls[k].op = "get_calculator"
    /\ calls[k].out.status = "returned"

\* C30: once get_calculator has returned an instance, every later
\* get_calculator returns that instance, also after a reset, while a
\* get_similarity_calculator that follows the reset returns another instance
C30_UtilsCacheSurvivesReset ==
    \A j, k \in 1..Len(calls) :
        (j < k /\ CachedGetAt(j)) =>
            /\ CachedGetAt(k) => calls[k].out.val = calls[j].out.val
            /\ (GetAt(k) /\ \E m \in (j + 1)..(k - 1) : ResetAt(m)) =>
                  calls[k].out.val # calls[j].out.val

\* get_calculator, reset, get_similarity_calculator, get_calculator: the two
\* accessors hold different calculators
C30_Witness ==
    /\ Len(calls) = 4
    /\ CachedGetAt(1) /\ ResetAt(2) /\ GetAt(3) /\ CachedGetAt(4)
    /\ calls[1].out.val = 1
    /\ calls[3].out.val = 2
    /\ calls[4].out.val = 1
    /\ utils_calculator # service_calculator

\* call k of the history is a readiness check, or a compute_similarity that
\* returned
ReadyAt(k) == calls[k].op = "readiness_check"
ComputedAt(k) ==
    /\ calls[k].op = "compute_similarity"
    /\ calls[k].out.status = "returned"

\* C25 as stated: readiness_check answers 200 exactly when the model was
\* already loaded when the check began, and the check never loads the model
C25_ReadyIffAlreadyLoaded ==
    IsCall("readiness_check") =>
        /\ LastCall.out.val = 200 <=> LastCall.loaded_before
        /\ ModelLoaded <=> LastCall.loaded_before

\* C25, amended: readiness_check answers 200 exactly when the model of the
\* calculator get_calculator hands it is loaded, and 503 otherwise.  With lazy
\* loading the check never loads the model and answers 503 until a similarity
\* was computed; a check made after the model was loaded answers 200.  With
\* lazy loading off, a check that has to construct the calculator loads the
\* model by doing so
C25_ReadyIffLoadedWhenRead ==
    /\ IsCall("readiness_check") =>
          /\ LastCall.out.val = 200 <=> ModelLoaded
          /\ lazy_loading => (ModelLoaded <=> LastCall.loaded_before)
          /\ (~lazy_loading /\ ModelLoaded /\ ~LastCall.loaded_before) =>
                utils_calculator = Len(instances)
    /\ \A k \in 1..Len(calls) :
          ReadyAt(k) =>
              /\ calls[k].out.val \in {200, 503}
              /\ calls[k].loaded_before => calls[k].out.val = 200
              /\ (lazy_loading /\ \A j \in 1..(k - 1) : ~ComputedAt(j)) =>
                    calls[k].out.val = 503

\* with lazy loading: /ready answered 503, a similarity was computed, and
\* /ready answered 200
C25_Witness ==
    /\ lazy_loading
    /\ Len(calls) = 3
    /\ ReadyAt(1) /\ calls[1].out.val = 503
    /\ ComputedAt(2)
    /\ ReadyAt(3) /\ calls[3].out.val = 200 /\ calls[3].loaded_before

----------------------------------------------------------------------------
(* Upper bounds of the scores *)

\* every similarity the provider returned for the call is in [0, 1]
SimsInUnit ==
    \A key \in DOMAIN sc_in.sim : sc_in.sim[key] >= 0 /\ sc_in.sim[key] <= SimScale

\* 100 * (w_general + w_skills + w_education + max_scaling_factor * w_experience),
\* in hundredths of a point
MaxTotal ==
    100 * (SCORING_WEIGHTS.general + SCORING_WEIGHTS.skills + SCORING_WEIGHTS.education)
    + (100 * MaxScalingNum * SCORING_WEIGHTS.experience) \div MaxScalingDen

\* C26: with every similarity in [0, 1], get_resume_ranking_score returns
\* ge <= 100 w_general, ss <= 100 w_skills, ed <= 100 w_education,
\* ex <= 100 * 1.5 * w_experience and ts <= 115 points; ed <= 100 w_education
\* holds for every similarity
C26_ScoreUpperBounds ==
    sc_out.op = "get_resume_ranking_score" =>
        /\ sc_out.val.ed <= 100 * SCORING_WEIGHTS.education
        /\ SimsInUnit =>
              /\ sc_out.val.ge <= 100 * SCORING_WEIGHTS.general
              /\ sc_out.val.ss <= 100 * SCORING_WEIGHTS.skills
              /\ MaxScalingDen * sc_out.val.ex
                    <= 100 * MaxScalingNum * SCORING_WEIGHTS.experience
              /\ sc_out.val.ts <= MaxTotal
              /\ MaxTotal = 11500

\* all similarities 1.0 and a resume with at least 1.5 times the required
\* years: every bound is met, the total is 115
C26_Witness ==
    /\ sc_out.op = "get_resume_ranking_score"
    /\ SimsInUnit
    /\ sc_out.val.ge = 100 * SCORING_WEIGHTS.general
    /\ sc_out.val.ss = 100 * SCORING_WEIGHTS.skills
    /\ sc_out.val.ed = 100 * SCORING_WEIGHTS.education
    /\ sc_out.val.ex = 4500
    /\ sc_out.val.ts = 11500

----------------------------------------------------------------------------
(* The degree-equivalence boost on the process_single_resume path *)

\* every phrase of the lists of degree_equivalents
EquivalentPhrases == UNION { degree_equivalents[key] : key \in DOMAIN degree_equivalents }

\* the similarity the provider gave for the education of the h-th result
EducationSim(h) == request.files[ranked_resumes[h].upload].doc.sim.education

----------------------------------------------------------------------------
(* Vocabulary entries that clean_text makes unmatchable *)

HasSpecial(entry) == \E j \in 1..Len(entry) : IsSpecial(entry[j])
HasStopWord(entry) ==
    \E j \in 1..Len(SplitWords(entry, 1, <<>>, <<>>)) :
        SplitWords(entry, 1, <<>>, <<>>)[j] \in STOP_WORDS

\* C28: extract_entities never reports a vocabulary entry that holds a
\* character outside [a-z0-9] and white space, or a stopword as one of its
\* words, whatever the text
C28_UnmatchableEntries ==
    sc_out.op = "extract_entities" =>
        \A entry \in sc_out.val : ~HasSpecial(entry) /\ ~HasStopWord(entry)

\* the text "ruby on rails" is cleaned to "ruby rails", and the entry
\* "ruby on rails" is not reported
C28_Witness ==
    /\ sc_out.op = "extract_entities"
    /\ sc_in.text = <<"ruby", " ", "on", " ", "rails">>
    /\ clean_text(sc_in.text) = <<"ruby", " ", "rails">>
    /\ sc_out.val = {}

----------------------------------------------------------------------------
(* Exclusion of the education ranges by value *)

\* where the education substring stands in the text: its first and last
\* position (an empty span when there is none)
EducationSpan(text) ==
    IF EduAt(text) = {} THEN <<Len(text) + 1, Len(text)>>
    ELSE LET first == CHOOSE j \in EduAt(text) : \A h \in EduAt(text) : j <= h
             stops == { j \in WorkAt(text) : j > first }
         IN  IF stops # {}
             THEN <<first, (CHOOSE j \in stops : \A h \in stops : j <= h) - 1>>
             ELSE <<SetMax(EduAt(text)), Len(text)>>

\* the ranges that stand before or behind the education substring
RangesOutsideEducation(text) ==
    RangeSet(get_years(SubSeq(text, 1, EducationSpan(text)[1] - 1)))
    \cup RangeSet(get_years(SubSeq(text, EducationSpan(text)[2] + 1, Len(text))))

\* C29: without an explicit years mention, a range that stands outside the
\* education substring is dropped as well when its (start, end) equals that
\* of a range of the education substring: the years returned are those of the
\* outside ranges that equal no education range, and 0 when every one of them
\* equals an education range
C29_ExcludedByValue ==
    (Returned /\ MentionValues(CalledText) = {}) =>
        /\ SubSeq(CalledText, EducationSpan(CalledText)[1],
                  EducationSpan(CalledText)[2]) = get_education_text(CalledText)
        /\ ex_out.val = TotalCovered(RangesOutsideEducation(CalledText)
                                     \ EducationRanges(CalledText))
        /\ RangesOutsideEducation(CalledText) \subseteq EducationRanges(CalledText)
              => ex_out.val = 0

\* "education 2015-2018 work 2015-2018": the job of the same years as the
\* degree stands outside the education substring and counts 0 years
C29_Witness ==
    /\ ex_out.op = "extract_experience"
    /\ ex_text = <<Edu, Num(2015), Dash, Num(2018), Work, Num(2015), Dash, Num(2018)>>
    /\ RangesOutsideEducation(ex_text) = { <<2015, 2018>> }
    /\ EducationRanges(ex_text) = { <<2015, 2018>> }
    /\ ex_out.val = 0

=============================================================================
